---- MODULE Spec2Model ----
(***************************************************************************)
(* Offline-first synchronisation engine of XTodo: SyncService              *)
(* (src/src/app/services/sync.service.ts) with the parts of AuthService    *)
(* and of the auth interceptor that it reads.                              *)
(*                                                                         *)
(* One action is one JavaScript task (a handler run to completion on the   *)
(* single UI thread); an await or a pending IndexedDB transaction or HTTP  *)
(* request ends an action and its continuation is another action.          *)
(***************************************************************************)
EXTENDS Integers, Sequences, FiniteSets, TLC

\* Bounds of the model.
MaxOps == 1        \* local mutations (add, update, delete, import) in a run of Spec
MaxSyncs == 1      \* syncWithServer calls in a run of Spec
SyncOps == 1       \* the same, in a run of SyncSpec
SyncSyncs == 3
LiveSyncs == 3     \* syncWithServer calls in a run of LiveSpec
UserOps == 2       \* local mutations in a run of UserSpec
SessionSyncs == 2  \* syncWithServer calls in a run of SessionSpec
TaskOps == 2       \* local mutations in a run of TaskSpec
TaskSyncs == 1     \* syncWithServer calls in a run of TaskSpec
MaxLen == 2        \* length of the caches, logs and payloads of MergeSpec
QuotaOps == 2      \* imports in a run of QuotaSpec
QuotaSyncs == 1    \* syncWithServer calls in a run of QuotaSpec
LoadOps == 1       \* local mutations in a run of LoadSpec
DurableOps == 1    \* local mutations in a run of DurableSpec
DurableSyncs == 1  \* syncWithServer calls in a run of DurableSpec
ImportOps == 1     \* imports in a run of ImportSpec
StatsLen == 3      \* length of the task snapshots of StatsSpec
RemoteOps == 2     \* instant up to which local mutations are made in a run of RemoteSpec
RemoteSyncs == 2   \* syncWithServer calls in a run of RemoteSpec
IdOps == 2         \* local mutations and imports in a run of IdSpec
IdSyncs == 1       \* syncWithServer calls in a run of IdSpec
LogOps == 2        \* local mutations and imports in a run of LogSpec
LogSyncs == 1      \* syncWithServer calls in a run of LogSpec
CancelOps == 1     \* local mutations in a run of CancelSpec
CancelSyncs == 2   \* syncWithServer calls in a run of CancelSpec
RestartOps == 4    \* local mutations and restarts in a run of RestartSpec
LateSyncs == 3     \* syncWithServer calls in a run of LateSpec
RaceOps == 3       \* local mutations in a run of RaceSpec
SwitchOps == 1     \* local mutations in a run of SwitchSpec
SwitchSyncs == 1   \* syncWithServer calls in a run of SwitchSpec
FailOps == 1       \* local mutations in a run of FailSpec
FailSyncs == 1     \* syncWithServer calls in a run of FailSpec

Users == {"A", "B"}
NoUser == "none"                       \* currentUserSubject.value === null
Namespaces == Users \cup {"anonymous"}

VARIABLES
  user,              \* AuthService.currentUserSubject.value
  tasks,             \* tasksSubject.value
  projects,          \* projectsSubject.value
  pendingChanges,    \* pendingChangesSubject.value
  isSyncInProgress,  \* the sync lock
  syncQueue,         \* deferred sync requests (closures), by request number
  syncStatus,        \* syncStatusSubject.value
  inflight,          \* HTTP exchanges sent and not yet answered
  cold,              \* observables syncWithServer returned, not yet subscribed
  localStorage,      \* window.localStorage, key -> item
  db,                \* this.db !== null
  idb,               \* IndexedDB store pendingChanges, by userId index
  idbTxns,           \* IndexedDB transactions created and not yet complete
  initPc,            \* position of the constructor's asynchronous initialisation
  initCtx,           \* locals of loadPendingChanges across its awaits
  clock,             \* Date.now(), advanced by every local mutation
  reqCount,          \* number of syncWithServer calls so far
  limit,             \* the bounds of this run on clock and reqCount
  startOrder,        \* history: request numbers in the order their exchanges started
  dirty,             \* history: the cache or the log changed locally during the exchange
  lastOk,            \* history: per user, newLastSync of the last successful exchange
  remote,            \* the remote store's tables, and the responses it has sent
  ev                 \* history: what the last step was

vars == <<user, tasks, projects, pendingChanges, isSyncInProgress, syncQueue,
          syncStatus, inflight, cold, localStorage, db, idb, idbTxns, initPc, initCtx,
          clock, reqCount, limit, startOrder, dirty, lastOk, remote, ev>>

cacheVars == <<tasks, projects>>
syncVars == <<isSyncInProgress, syncQueue, syncStatus, inflight, cold, reqCount,
              startOrder>>
idbVars == <<db, idb, idbTxns>>
initVars == <<initPc, initCtx>>

----------------------------------------------------------------------------
\* Sequences

Range(s) == {s[i] : i \in DOMAIN s}

Last(s) == s[Len(s)]

IdsOf(s) == {s[i].id : i \in DOMAIN s}

\* Mutant: an id that is not found finds the first element
FindIndexOrFirst(s, id) ==
  IF \E i \in DOMAIN s : s[i].id = id
  THEN CHOOSE i \in DOMAIN s : s[i].id = id /\ \A j \in 1..(i - 1) : s[j].id # id
  ELSE IF s = <<>> THEN 0 ELSE 1

\* Array.prototype.findIndex(e => e.id === id); 0 stands for -1
FindIndex(s, id) ==
  IF \E i \in DOMAIN s : s[i].id = id
  THEN CHOOSE i \in DOMAIN s : s[i].id = id /\ \A j \in 1..(i - 1) : s[j].id # id
  ELSE 0

\* Mutant: the first element goes, whatever its id
FilterOutFirst(s, id) == Tail(s)

\* Array.prototype.filter(e => e.id !== id)
FilterOutId(s, id) == SelectSeq(s, LAMBDA e : e.id # id)

----------------------------------------------------------------------------
\* localStorage

NoItem == [present |-> FALSE, json |-> <<>>]       \* getItem(...) === null

\* JSON.stringify of a collection, as stored by setItem
Stringify(value) == [present |-> TRUE, json |-> value]

\* JSON.parse(item || '[]')
ParseOrEmpty(item) == IF item.present THEN item.json ELSE <<>>

\* An item whose text is not JSON (a write cut short, an edit by hand)
Corrupt == [present |-> TRUE, json |-> <<>>, corrupt |-> TRUE]

\* JSON.parse(item) returns; otherwise it throws a SyntaxError
Parses(item) == "corrupt" \notin DOMAIN item

Namespace(u) == IF u = NoUser THEN "anonymous" ELSE u

getStorageKeys(u) ==
  [ TASKS_KEY |-> <<"xtodo_tasks", Namespace(u)>>,
    PROJECTS_KEY |-> <<"xtodo_projects", Namespace(u)>>,
    LAST_SYNC_KEY |-> <<"xtodo_last_sync", Namespace(u)>>,
    PENDING_CHANGES_KEY |-> <<"xtodo_pending_changes", Namespace(u)>> ]

StorageKeys ==
  {<<k, n>> : k \in {"xtodo_tasks", "xtodo_projects", "xtodo_last_sync",
                     "xtodo_pending_changes"}, n \in Namespaces}

\* Mutant: both collections go under the anonymous keys
saveToStorageAnonymous(store, u, ts, ps) ==
  [store EXCEPT ![<<"xtodo_tasks", "anonymous">>] = [present |-> TRUE, json |-> ts],
                ![<<"xtodo_projects", "anonymous">>] = [present |-> TRUE, json |-> ps]]

\* saveToStorage(): both collections under the current user's keys
saveToStorage(store, u, ts, ps) ==
  [store EXCEPT ![getStorageKeys(u).TASKS_KEY] = Stringify(ts),
                ![getStorageKeys(u).PROJECTS_KEY] = Stringify(ps)]

savePendingToLocalStorage(store, u, pending) ==
  [store EXCEPT ![getStorageKeys(u).PENDING_CHANGES_KEY] = Stringify(pending)]

----------------------------------------------------------------------------
\* Entities and mutations

\* An entity as created by addTask/addProject; val stands for the fields and
\* updatedAt, which every write replaces.
Entity(id, owner, val) == [id |-> id, userId |-> owner, val |-> val]

\* addPendingChange's newChange
Change(type, action, data, now) ==
  [type |-> type, action |-> action, data |-> data, timestamp |-> now]

\* { ...data, _action: action }
Tagged(e, action) == [id |-> e.id, userId |-> e.userId, val |-> e.val, tag |-> action]

\* Mutant: the delete mutation carries another id
DeleteDataOtherId(id) == [id |-> 0 - 9, tag |-> "delete"]

\* { id } with _action: 'delete'
DeleteData(id) == [id |-> id, tag |-> "delete"]

----------------------------------------------------------------------------
\* Pure steps of the merge and of the confirmation

\* Mutant: a key the Map already has keeps the local value
MapSetKeepsLocal(m, e) ==
  IF FindIndex(m, e.id) # 0 THEN m ELSE Append(m, e)

\* Map.prototype.set(e.id, e) on a Map kept as the sequence of its values:
\* an existing key keeps its position, a new key goes last
MapSet(m, e) ==
  IF FindIndex(m, e.id) # 0 THEN [m EXCEPT ![FindIndex(m, e.id)] = e]
  ELSE Append(m, e)

RECURSIVE SetAll(_, _)
\* rows.forEach(row => map.set(row.id, row))
SetAll(m, rows) ==
  IF rows = <<>> THEN m ELSE SetAll(MapSet(m, Head(rows)), Tail(rows))

\* Mutant: the server rows are appended to the local ones
MergeAppend(current, rows) == current \o rows

\* Mutant: the incoming rows replace the collection
MergeReplace(current, rows) == SetAll(<<>>, rows)

\* Array.from(new Map(current.map(e => [e.id, e])) with every server row set)
MergeById(current, rows) == SetAll(SetAll(<<>>, current), rows)

\* confirmedIds of clearConfirmedChanges
ConfirmedIds(confirmed) == IdsOf(confirmed.tasks) \cup IdsOf(confirmed.projects)

\* Mutant: only the oldest confirmed mutation is taken out
RemainingDropsOne(pending, confirmedIds) ==
  IF \E i \in DOMAIN pending : pending[i].data.id \in confirmedIds
  THEN LET k == CHOOSE i \in DOMAIN pending :
                  /\ pending[i].data.id \in confirmedIds
                  /\ \A j \in 1..(i - 1) : pending[j].data.id \notin confirmedIds
       IN SubSeq(pending, 1, k - 1) \o SubSeq(pending, k + 1, Len(pending))
  ELSE pending

\* Mutant: a successful exchange empties the log
RemainingNone(pending, confirmedIds) == <<>>

\* pending.filter(change => !confirmedIds.has(change.data.id))
Remaining(pending, confirmedIds) ==
  SelectSeq(pending, LAMBDA change : change.data.id \notin confirmedIds)

\* Mutant: a create that a later delete of the same entity follows is cancelled
\* with that delete
OfTypeCollapsed(pending, type) ==
  LET cancelled(i) ==
        \/ /\ pending[i].action = "create"
           /\ \E j \in DOMAIN pending : /\ j > i
                                        /\ pending[j].action = "delete"
                                        /\ pending[j].data.id = pending[i].data.id
        \/ /\ pending[i].action = "delete"
           /\ \E j \in DOMAIN pending : /\ j < i
                                        /\ pending[j].action = "create"
                                        /\ pending[j].data.id = pending[i].data.id
      kept == {i \in DOMAIN pending : pending[i].type = type /\ ~cancelled(i)}
  IN [k \in 1..Cardinality(kept) |->
        pending[CHOOSE i \in kept : Cardinality({j \in kept : j <= i}) = k]]

\* pendingChanges.filter(change => change.type === type)
OfType(pending, type) == SelectSeq(pending, LAMBDA change : change.type = type)

----------------------------------------------------------------------------
\* History values

NoEv == [kind |-> "other"]

\* The remote store before any client has written to it
NoRemote == [tasks |-> <<>>, projects |-> <<>>, responses |-> {}]

\* getLastSync() === null for every user: no exchange has succeeded yet
NoneYet == [n \in Namespaces |-> NoItem]

\* The state left by an earlier session of user A: one task and its create
\* mutation, not yet confirmed.
PriorTask == Entity(0, "A", 0)
PriorChange == Change("task", "create", Tagged(PriorTask, "create"), 0)

EmptyStore == [k \in StorageKeys |-> NoItem]
EmptyIdb == [n \in Namespaces |-> <<>>]

\* What the browser profile can hold when the application starts: nothing; a
\* session of A whose log went to IndexedDB; a session of A whose log went to
\* the localStorage fallback.
InitialProfiles ==
  { [ls |-> EmptyStore, idb |-> EmptyIdb],
    [ls |-> saveToStorage(EmptyStore, "A", <<PriorTask>>, <<>>),
     idb |-> [EmptyIdb EXCEPT !["A"] = <<PriorChange>>]],
    [ls |-> savePendingToLocalStorage(
              saveToStorage(EmptyStore, "A", <<PriorTask>>, <<>>), "A", <<PriorChange>>),
     idb |-> EmptyIdb] }

\* The service as its constructor returns, in a browser profile of profiles
ConstructedOn(profiles) ==
  /\ user \in {NoUser, "A"}
  /\ tasks = <<>>
  /\ projects = <<>>
  /\ pendingChanges = <<>>
  /\ isSyncInProgress = FALSE
  /\ syncQueue = <<>>
  /\ syncStatus = "idle"
  /\ inflight = {}
  /\ cold = {}
  /\ \E p \in profiles : localStorage = p.ls /\ idb = p.idb
  /\ db = FALSE
  /\ idbTxns = <<>>
  /\ initPc = "opening"
  /\ initCtx = [userId |-> "anonymous", changes |-> <<>>]
  /\ clock = 0
  /\ reqCount = 0
  /\ startOrder = <<>>
  /\ dirty = FALSE
  /\ lastOk = NoneYet
  /\ remote = NoRemote
  /\ ev = NoEv

Constructed == ConstructedOn(InitialProfiles)

Init == Constructed /\ limit = [ops |-> MaxOps, syncs |-> MaxSyncs]

----------------------------------------------------------------------------
\* AuthService

\* persistAuth(res), run when a sign-in or sign-up response arrives
Signin(u) ==
  /\ u # user
  /\ user' = u
  /\ ev' = NoEv
  /\ UNCHANGED <<limit, remote, lastOk, cacheVars, pendingChanges, syncVars, localStorage, idbVars,
                 initVars, clock, dirty>>

\* signout(): by the user, or by the token expiry check
Signout ==
  /\ user # NoUser
  /\ user' = NoUser
  /\ ev' = NoEv
  /\ UNCHANGED <<limit, remote, lastOk, cacheVars, pendingChanges, syncVars, localStorage, idbVars,
                 initVars, clock, dirty>>

----------------------------------------------------------------------------
\* Mutation Log append

\* saveToIndexedDB(userId, changes): one readwrite transaction that deletes the
\* user's entries and adds all of changes
SaveTxn(userId, changes) ==
  [op |-> "save", userId |-> userId, changes |-> changes, migrate |-> FALSE]

\* The transactions after addPendingChange's persistence step
TxnsAfterSave(txns, pending) ==
  IF db THEN Append(txns, SaveTxn(Namespace(user), pending)) ELSE txns

\* localStorage after addPendingChange's persistence step
StoreAfterSave(store, pending) ==
  IF db THEN store ELSE savePendingToLocalStorage(store, user, pending)

\* What a call of a local operation gave its caller: the entity it returns
\* (entity = <<e>>), null, true, false, or an Error thrown
Returned(op, id, outcome, entity) ==
  [kind |-> "call", op |-> op, id |-> id, outcome |-> outcome, entity |-> entity]

\* An optimistic local write: the new collections are published and saved,
\* then addPendingChange(type, action, data) appends and persists
LocalWrite(ts, ps, type, action, data, returned) ==
  /\ clock' = clock + 1
  /\ tasks' = ts
  /\ projects' = ps
  /\ pendingChanges' = Append(pendingChanges, Change(type, action, data, clock + 1))
  /\ localStorage' = StoreAfterSave(saveToStorage(localStorage, user, ts, ps),
                                    pendingChanges')
  /\ idbTxns' = TxnsAfterSave(idbTxns, pendingChanges')
  /\ dirty' = TRUE
  /\ ev' = returned
  /\ UNCHANGED <<limit, remote, lastOk, user, syncVars, db, idb, initVars>>

\* A call that ends before it writes anything: throw new Error(...), return
\* null, return false
NoWrite(returned) ==
  /\ ev' = returned
  /\ UNCHANGED <<limit, remote, lastOk, user, cacheVars, pendingChanges, syncVars, localStorage,
                 idbVars, initVars, clock, dirty>>

\* generateId(): the time in base 36 followed by random digits
\* Mutant: the id is the instant alone, at a resolution two calls share
CoarseId == (clock \div 4) + 1

\* Date.now().toString(36) + Math.random().toString(36).substr(2): an id no
\* earlier call returned (the instant and the random draw of two calls are
\* never both equal)
generateId == clock + 1

\* Mutant: the user check never fails
UnauthenticatedNever(u) == FALSE

\* if (!user) of addTask and addProject
Unauthenticated(u) == u = NoUser

\* Mutant: the entity is taken out and put back last
MoveToEnd(s, i, e) == Append(SelectSeq(s, LAMBDA o : o.id # s[i].id), e)

\* newTasks = [...currentTasks]; newTasks[taskIndex] = updatedTask
ReplaceAt(s, i, e) == [s EXCEPT ![i] = e]

addTask ==
  IF Unauthenticated(user)
  THEN NoWrite(Returned("addTask", generateId, "throws", <<>>))
  ELSE /\ clock < limit.ops
       /\ LET newTask == Entity(generateId, user, clock + 1)
          IN LocalWrite(Append(tasks, newTask), projects,
                        "task", "create", Tagged(newTask, "create"),
                        Returned("addTask", newTask.id, "entity", <<newTask>>))

updateTask(id) ==
  IF FindIndex(tasks, id) = 0
  THEN NoWrite(Returned("updateTask", id, "null", <<>>))
  ELSE /\ clock < limit.ops
       /\ LET taskIndex == FindIndex(tasks, id)
              updatedTask == [tasks[taskIndex] EXCEPT !.val = clock + 1]
          IN LocalWrite(ReplaceAt(tasks, taskIndex, updatedTask), projects,
                        "task", "update", Tagged(updatedTask, "update"),
                        Returned("updateTask", id, "entity", <<updatedTask>>))

deleteTask(id) ==
  IF FindIndex(tasks, id) = 0
  THEN NoWrite(Returned("deleteTask", id, "false", <<>>))
  ELSE /\ clock < limit.ops
       /\ LocalWrite(FilterOutId(tasks, id), projects, "task", "delete", DeleteData(id),
                     Returned("deleteTask", id, "true", <<>>))

addProject ==
  IF Unauthenticated(user)
  THEN NoWrite(Returned("addProject", generateId, "throws", <<>>))
  ELSE /\ clock < limit.ops
       /\ LET newProject == Entity(generateId, user, clock + 1)
          IN LocalWrite(tasks, Append(projects, newProject),
                        "project", "create", Tagged(newProject, "create"),
                        Returned("addProject", newProject.id, "entity", <<newProject>>))

updateProject(id) ==
  IF FindIndex(projects, id) = 0
  THEN NoWrite(Returned("updateProject", id, "null", <<>>))
  ELSE /\ clock < limit.ops
       /\ LET projectIndex == FindIndex(projects, id)
              updatedProject == [projects[projectIndex] EXCEPT !.val = clock + 1]
          IN LocalWrite(tasks, ReplaceAt(projects, projectIndex, updatedProject),
                        "project", "update", Tagged(updatedProject, "update"),
                        Returned("updateProject", id, "entity", <<updatedProject>>))

deleteProject(id) ==
  IF FindIndex(projects, id) = 0
  THEN NoWrite(Returned("deleteProject", id, "false", <<>>))
  ELSE /\ clock < limit.ops
       /\ LocalWrite(tasks, FilterOutId(projects, id), "project", "delete", DeleteData(id),
                     Returned("deleteProject", id, "true", <<>>))

----------------------------------------------------------------------------
\* Import of a backup

\* The entity a user's earlier session (or backup file) holds
OwnId(ns) == IF ns = "A" THEN 0 ELSE IF ns = "B" THEN 0 - 1 ELSE 0 - 2

\* Backup files the current user can pick: an export with a task and its
\* pending create, and an export with a project and no pendingChanges field
Backups(u) ==
  LET e == Entity(OwnId(Namespace(u)), Namespace(u), 0)
  IN { [tasks |-> <<e>>, projects |-> <<>>, hasPending |-> TRUE,
        pendingChanges |-> <<Change("task", "create", Tagged(e, "create"), 0)>>],
       [tasks |-> <<>>, projects |-> <<e>>, hasPending |-> FALSE,
        pendingChanges |-> <<>>] }

\* What importData gave its caller (returns, or the error rethrown by its
\* catch), with the backup it was given
Imported(data, outcome) ==
  [kind |-> "call", op |-> "importData", id |-> 0, outcome |-> outcome, entity |-> <<data>>]

importData(data) ==
  /\ clock < limit.ops
  /\ clock' = clock + 1
  /\ tasks' = MergeById(tasks, data.tasks)
  /\ projects' = MergeById(projects, data.projects)
  /\ pendingChanges' = IF data.hasPending THEN pendingChanges \o data.pendingChanges
                       ELSE pendingChanges
  /\ localStorage' =
       saveToStorage(
         IF data.hasPending
         THEN [localStorage EXCEPT ![getStorageKeys(user).PENDING_CHANGES_KEY] =
                                      Stringify(pendingChanges')]
         ELSE localStorage,
         user, tasks', projects')
  /\ dirty' = TRUE
  /\ ev' = Imported(data, "returns")
  /\ UNCHANGED <<limit, remote, lastOk, user, syncVars, idbVars, initVars>>

\* importData(data) while localStorage rejects writes (quota exceeded, storage
\* disabled): the collections and the log are published; with pendingChanges in
\* the backup, setItem throws inside the try, and the catch logs and rethrows
\* before saveToStorage; without, saveToStorage catches its own error
importDataStoreFails(data) ==
  /\ clock < limit.ops
  /\ clock' = clock + 1
  /\ tasks' = MergeById(tasks, data.tasks)
  /\ projects' = MergeById(projects, data.projects)
  /\ pendingChanges' = IF data.hasPending THEN pendingChanges \o data.pendingChanges
                       ELSE pendingChanges
  /\ dirty' = TRUE
  /\ ev' = Imported(data, IF data.hasPending THEN "throws" ELSE "returns")
  /\ UNCHANGED <<limit, remote, lastOk, user, syncVars, localStorage, idbVars, initVars>>

----------------------------------------------------------------------------
\* Asynchronous initialisation: initIndexedDB().then(loadFromStorage; loadPendingChanges)

\* The synchronous tail of loadPendingChanges from the localStorage fallback on:
\* the log it publishes
FallbackLog(store, u) ==
  IF Parses(store[getStorageKeys(u).PENDING_CHANGES_KEY])
  THEN ParseOrEmpty(store[getStorageKeys(u).PENDING_CHANGES_KEY])
  ELSE <<>>                            \* catch: pendingChangesSubject.next([])

\* loadFromStorage's try: both collections parse; otherwise its catch logs and
\* neither subject is given a value
LoadsFromStorage(store, u) ==
  /\ Parses(store[getStorageKeys(u).TASKS_KEY])
  /\ Parses(store[getStorageKeys(u).PROJECTS_KEY])

\* if (this.db && pending.length > 0) await saveToIndexedDB(userId, pending)
Migrates(store, u, open) ==
  /\ store[getStorageKeys(u).PENDING_CHANGES_KEY].present
  /\ open
  /\ Len(FallbackLog(store, u)) > 0

MigrateTxn(userId, changes, key) ==
  [op |-> "save", userId |-> userId, changes |-> changes, migrate |-> TRUE, key |-> key]

\* request.onsuccess / request.onerror of indexedDB.open, then the constructor's
\* callback: loadFromStorage() whole, loadPendingChanges() up to its first await
InitOpened(ok) ==
  /\ initPc = "opening"
  /\ db' = ok
  /\ IF LoadsFromStorage(localStorage, user)
     THEN /\ tasks' = ParseOrEmpty(localStorage[getStorageKeys(user).TASKS_KEY])
          /\ projects' = ParseOrEmpty(localStorage[getStorageKeys(user).PROJECTS_KEY])
     ELSE UNCHANGED <<tasks, projects>>
  /\ IF ok
     THEN /\ initPc' = "reading"
          /\ initCtx' = [userId |-> Namespace(user), changes |-> idb[Namespace(user)]]
          /\ UNCHANGED pendingChanges
     ELSE /\ initPc' = "done"
          /\ pendingChanges' = FallbackLog(localStorage, user)
          /\ UNCHANGED initCtx
  /\ dirty' = TRUE
  /\ ev' = NoEv
  /\ UNCHANGED <<limit, remote, lastOk, user, syncVars, localStorage, idb, idbTxns, clock>>

\* loadPendingChanges() resumed after await getFromIndexedDB(userId)
LoadPendingResume ==
  /\ initPc = "reading"
  /\ IF Len(initCtx.changes) > 0
     THEN /\ pendingChanges' = initCtx.changes
          /\ initPc' = "done"
          /\ UNCHANGED idbTxns
     ELSE /\ pendingChanges' = FallbackLog(localStorage, user)
          /\ IF Migrates(localStorage, user, db)
             THEN /\ idbTxns' = Append(idbTxns,
                                  MigrateTxn(initCtx.userId, pendingChanges',
                                             getStorageKeys(user).PENDING_CHANGES_KEY))
                  /\ initPc' = "migrating"
             ELSE /\ initPc' = "done"
                  /\ UNCHANGED idbTxns
  /\ dirty' = TRUE
  /\ ev' = NoEv
  /\ UNCHANGED <<limit, remote, lastOk, user, cacheVars, syncVars, localStorage, db, idb, initCtx, clock>>

----------------------------------------------------------------------------
\* IndexedDB: transactions on the one object store complete in creation order

\* clearFromIndexedDB(userId, confirmedIds).then(() => saveToIndexedDB(userId, remaining))
ClearTxn(userId, confirmedIds, remaining) ==
  [op |-> "clear", userId |-> userId, ids |-> confirmedIds, changes |-> remaining,
   migrate |-> FALSE]

\* transaction.oncomplete of the oldest transaction, and the continuation it resolves
IdbComplete ==
  /\ idbTxns # <<>>
  /\ LET t == Head(idbTxns)
     IN IF t.op = "save"
        THEN /\ idb' = [idb EXCEPT ![t.userId] = t.changes]
             /\ idbTxns' = Tail(idbTxns)
             /\ IF t.migrate
                THEN /\ localStorage' = [localStorage EXCEPT ![t.key] = NoItem]
                     /\ initPc' = "done"
                ELSE UNCHANGED <<localStorage, initPc>>
        ELSE /\ idb' = [idb EXCEPT ![t.userId] = Remaining(idb[t.userId], t.ids)]
             /\ idbTxns' = Append(Tail(idbTxns), SaveTxn(t.userId, t.changes))
             /\ UNCHANGED <<localStorage, initPc>>
  /\ ev' = NoEv
  /\ UNCHANGED <<limit, remote, lastOk, user, cacheVars, pendingChanges, syncVars, db, initCtx, clock, dirty>>

----------------------------------------------------------------------------
\* Sync Coordinator

\* Mutant: the lock is never seen as held
LockIgnored == FALSE

\* syncWithServer: if (this.isSyncInProgress)
LockHeld == isSyncInProgress

\* Mutant: pop() for shift(), the newest queued request first
processNextQueuedSyncLifo(queue) ==
  IF Len(queue) > 0
  THEN [start |-> <<Last(queue)>>, queue |-> SubSeq(queue, 1, Len(queue) - 1)]
  ELSE [start |-> <<>>, queue |-> queue]

\* Mutant: the lock is released and the queue is left alone
processNextQueuedSyncNever(queue) == [start |-> <<>>, queue |-> queue]

\* processNextQueuedSync: the requests it starts (none or one) and the queue it leaves
processNextQueuedSync(queue) ==
  IF Len(queue) > 0
  THEN [start |-> <<Head(queue)>>, queue |-> Tail(queue)]
  ELSE [start |-> <<>>, queue |-> queue]

\* performSync() subscribed: the request it sends, with the state it was built
\* from (snap, history)
Exchange(req, u, store, log, ts, ps) ==
  [ req |-> req,
    token |-> u,
    lastSync |-> store[getStorageKeys(u).LAST_SYNC_KEY],
    tasks |-> OfType(log, "task"),
    projects |-> OfType(log, "project"),
    snap |-> [log |-> log, tasks |-> ts, projects |-> ps] ]

\* syncWithServer().subscribe(...): queued behind the lock, or performed
syncWithServer ==
  /\ reqCount < limit.syncs
  /\ reqCount' = reqCount + 1
  /\ IF LockHeld
     THEN /\ syncQueue' = Append(syncQueue, reqCount + 1)
          /\ UNCHANGED <<isSyncInProgress, syncStatus, inflight, startOrder, dirty>>
     ELSE /\ isSyncInProgress' = TRUE
          /\ syncStatus' = "syncing"
          /\ inflight' = inflight \cup
                {Exchange(reqCount + 1, user, localStorage, pendingChanges, tasks, projects)}
          /\ startOrder' = Append(startOrder, reqCount + 1)
          /\ dirty' = FALSE
          /\ UNCHANGED syncQueue
  /\ ev' = NoEv
  /\ UNCHANGED <<limit, remote, lastOk, user, cacheVars, pendingChanges, localStorage, idbVars,
                 initVars, clock, cold>>

\* Mutant: the deferred request is sent with the log and the last-sync
\* timestamp read before the handlers of the ending exchange ran
FinalizeStale(x, status, u, store, log, ts, ps) ==
  LET next == processNextQueuedSync(syncQueue)
  IN /\ syncQueue' = next.queue
     /\ IF next.start # <<>>
        THEN /\ isSyncInProgress' = TRUE
             /\ syncStatus' = "syncing"
             /\ inflight' = (inflight \ {x}) \cup
                   {Exchange(Head(next.start), u, localStorage, pendingChanges,
                             tasks, projects)}
             /\ startOrder' = Append(startOrder, Head(next.start))
             /\ dirty' = FALSE
        ELSE /\ isSyncInProgress' = FALSE
             /\ syncStatus' = status
             /\ inflight' = inflight \ {x}
             /\ UNCHANGED <<startOrder, dirty>>

\* finalize: the lock is released and the next queued request, if any, performs
\* its sync on the state the handlers left (u, store, log, ts, ps)
Finalize(x, status, u, store, log, ts, ps) ==
  LET next == processNextQueuedSync(syncQueue)
  IN /\ syncQueue' = next.queue
     /\ IF next.start # <<>>
        THEN /\ isSyncInProgress' = TRUE
             /\ syncStatus' = "syncing"
             /\ inflight' = (inflight \ {x}) \cup
                   {Exchange(Head(next.start), u, store, log, ts, ps)}
             /\ startOrder' = Append(startOrder, Head(next.start))
             /\ dirty' = FALSE
        ELSE /\ isSyncInProgress' = FALSE
             /\ syncStatus' = status
             /\ inflight' = inflight \ {x}
             /\ UNCHANGED <<startOrder, dirty>>

\* Rows the remote store holds for a user: the entity of the user's earlier
\* session as another client edited it, and an entity another client created
ServerRow(id, u) == Entity(id, u, 0 - 1)

ServerChanges(u) ==
  { [tasks |-> <<>>, projects |-> <<>>],
    [tasks |-> <<ServerRow(OwnId(u), u)>>, projects |-> <<>>],
    [tasks |-> <<ServerRow(OwnId(u) - 10, u)>>, projects |-> <<>>],
    [tasks |-> <<>>, projects |-> <<ServerRow(OwnId(u) - 10, u)>>] }

RECURSIVE IdRows(_, _)
\* processClientChanges' results: a row carrying the id for each change it applied
IdRows(sent, ids) ==
  IF sent = <<>> THEN <<>>
  ELSE (IF Head(sent).data.id \in ids THEN <<[id |-> Head(sent).data.id]>> ELSE <<>>)
       \o IdRows(Tail(sent), ids)

SentIds(x) == {x.tasks[i].data.id : i \in DOMAIN x.tasks}
                \cup {x.projects[i].data.id : i \in DOMAIN x.projects}

\* setLastSync(timestamp)
setLastSync(store, u, timestamp) ==
  [store EXCEPT ![getStorageKeys(u).LAST_SYNC_KEY] = Stringify(timestamp)]

\* A 200 response to exchange x, with serverChanges, a confirmation of the
\* changes of ids and newLastSync: the tap handler, then finalize
Respond(x, serverChanges, ids, newLastSync) ==
  /\ x \in inflight
  /\ x.token # NoUser
  /\ LET confirmed == [tasks |-> IdRows(x.tasks, ids), projects |-> IdRows(x.projects, ids)]
         ts == MergeById(tasks, serverChanges.tasks)
         ps == MergeById(projects, serverChanges.projects)
         remaining == Remaining(pendingChanges, ConfirmedIds(confirmed))
         store1 == saveToStorage(localStorage, user, ts, ps)
         store2 == IF db THEN store1 ELSE savePendingToLocalStorage(store1, user, remaining)
         store3 == setLastSync(store2, user, newLastSync)
     IN /\ tasks' = ts
        /\ projects' = ps
        /\ pendingChanges' = remaining
        /\ localStorage' = store3
        /\ idbTxns' = IF db
                      THEN Append(idbTxns, ClearTxn(Namespace(user),
                                                    ConfirmedIds(confirmed), remaining))
                      ELSE idbTxns
        /\ ev' = [kind |-> "success", newLastSync |-> newLastSync,
                  confirmed |-> ConfirmedIds(confirmed),
                  sent |-> x.tasks \o x.projects, before |-> pendingChanges,
                  started |-> processNextQueuedSync(syncQueue).start]
        /\ Finalize(x, "success", user, store3, remaining, ts, ps)
  /\ lastOk' = [lastOk EXCEPT ![x.token] = Stringify(newLastSync)]
  /\ UNCHANGED <<limit, user, db, idb, initVars, clock, reqCount, cold>>

\* A 200 response of a remote store left open: any of the payloads, any of the
\* sent changes confirmed, the request's number for newLastSync
SyncSuccess(x, serverChanges, ids) ==
  /\ Respond(x, serverChanges, ids, x.req)
  /\ UNCHANGED remote

\* The interceptor's catchError: a 401 to a request that carried a token signs out
UserAfterError(x, status) ==
  IF status = 401 /\ x.token # NoUser THEN NoUser ELSE user

\* Mutant: the handler takes the mutations it sent out of the log
LogAfterErrorDropsSent(x) ==
  SelectSeq(pendingChanges, LAMBDA c : c \notin Range(x.tasks \o x.projects))

\* catchError: the handler publishes 'error' and rethrows; the log stays as it is
LogAfterError(x) == pendingChanges

\* An error response (or no response) to exchange x: catchError, then finalize
SyncFail(x, status) ==
  /\ x \in inflight
  /\ user' = UserAfterError(x, status)
  /\ pendingChanges' = LogAfterError(x)
  /\ ev' = [kind |-> "fail", clean |-> ~dirty, snap |-> x.snap,
            sent |-> x.tasks \o x.projects,
            started |-> processNextQueuedSync(syncQueue).start]
  /\ Finalize(x, "error", user', localStorage, pendingChanges', tasks, projects)
  /\ UNCHANGED <<limit, remote, lastOk, cacheVars, localStorage, idbVars, initVars, clock, reqCount, cold>>

\* A 200 response to exchange x while localStorage rejects writes (quota
\* exceeded, storage disabled): tap runs updateLocalData and
\* clearConfirmedChanges, whose setItem errors are caught, then setLastSync,
\* whose setItem throws; catchError, then finalize
SyncRecordFails(x, serverChanges, ids) ==
  /\ x \in inflight
  /\ x.token # NoUser
  /\ LET confirmed == [tasks |-> IdRows(x.tasks, ids), projects |-> IdRows(x.projects, ids)]
         ts == MergeById(tasks, serverChanges.tasks)
         ps == MergeById(projects, serverChanges.projects)
         remaining == Remaining(pendingChanges, ConfirmedIds(confirmed))
     IN /\ tasks' = ts
        /\ projects' = ps
        /\ pendingChanges' = remaining
        /\ idbTxns' = IF db
                      THEN Append(idbTxns, ClearTxn(Namespace(user),
                                                    ConfirmedIds(confirmed), remaining))
                      ELSE idbTxns
        /\ ev' = [kind |-> "threw", clean |-> ~dirty, snap |-> x.snap,
                  sent |-> x.tasks \o x.projects,
                  started |-> processNextQueuedSync(syncQueue).start]
        /\ Finalize(x, "error", user, localStorage, remaining, ts, ps)
  /\ UNCHANGED <<limit, remote, lastOk, user, localStorage, db, idb, initVars, clock, reqCount, cold>>

----------------------------------------------------------------------------
Next ==
  \/ \E u \in Users : Signin(u)
  \/ Signout
  \/ addTask
  \/ \E id \in IdsOf(tasks) : updateTask(id)
  \/ \E id \in IdsOf(tasks) : deleteTask(id)
  \/ addProject
  \/ \E id \in IdsOf(projects) : updateProject(id)
  \/ \E id \in IdsOf(projects) : deleteProject(id)
  \/ \E data \in Backups(user) : importData(data)
  \/ \E ok \in BOOLEAN : InitOpened(ok)
  \/ LoadPendingResume
  \/ IdbComplete
  \/ syncWithServer
  \/ \E x \in inflight : \E sc \in ServerChanges(x.token) : \E ids \in SUBSET SentIds(x) :
        SyncSuccess(x, sc, ids)
  \/ \E x \in inflight : \E status \in {0, 401} : SyncFail(x, status)
  \/ \E x \in inflight : \E sc \in ServerChanges(x.token) : \E ids \in SUBSET SentIds(x) :
        SyncRecordFails(x, sc, ids)

Spec == Init /\ [][Next]_vars

----------------------------------------------------------------------------
\* A service whose initialisation has finished, in a session of user A: the
\* states the constructor's callbacks leave when nothing else runs before them,
\* IndexedDB having opened (open) or not.

ReadyCases ==
  {c \in [profile : InitialProfiles, open : BOOLEAN] :
     /\ c.open \/ c.profile.idb = EmptyIdb
     /\ ~Migrates(c.profile.ls, "A", c.open)}

Ready ==
  \E c \in ReadyCases :
    LET p == c.profile
    IN /\ user = "A"
       /\ tasks = ParseOrEmpty(p.ls[getStorageKeys("A").TASKS_KEY])
       /\ projects = ParseOrEmpty(p.ls[getStorageKeys("A").PROJECTS_KEY])
       /\ pendingChanges = IF c.open /\ Len(p.idb["A"]) > 0 THEN p.idb["A"]
                           ELSE FallbackLog(p.ls, "A")
       /\ isSyncInProgress = FALSE
       /\ syncQueue = <<>>
       /\ syncStatus = "idle"
       /\ inflight = {}
       /\ cold = {}
       /\ localStorage = p.ls
       /\ db = c.open
       /\ idb = p.idb
       /\ idbTxns = <<>>
       /\ initPc = "done"
       /\ initCtx = IF c.open THEN [userId |-> "A", changes |-> p.idb["A"]]
                    ELSE [userId |-> "anonymous", changes |-> <<>>]
       /\ clock = 0
       /\ reqCount = 0
       /\ startOrder = <<>>
       /\ dirty = TRUE
       /\ lastOk = NoneYet
  /\ remote = NoRemote
  /\ ev = NoEv

\* Ready, in a browser where IndexedDB did not open: the log is persisted by
\* the localStorage fallback
ReadyFallback == Ready /\ ~db

----------------------------------------------------------------------------
\* The Sync Coordinator with local writes, IndexedDB not having opened

SyncNext ==
  \/ addTask
  \/ \E id \in IdsOf(tasks) : updateTask(id)
  \/ \E id \in IdsOf(tasks) : deleteTask(id)
  \/ addProject
  \/ \E id \in IdsOf(projects) : updateProject(id)
  \/ \E id \in IdsOf(projects) : deleteProject(id)
  \/ syncWithServer
  \/ \E x \in inflight : \E sc \in ServerChanges(x.token) : \E ids \in SUBSET SentIds(x) :
        SyncSuccess(x, sc, ids)
  \/ \E x \in inflight : \E status \in {0, 401} : SyncFail(x, status)

SyncInit == ReadyFallback /\ limit = [ops |-> SyncOps, syncs |-> SyncSyncs]

SyncSpec == SyncInit /\ [][SyncNext]_vars

----------------------------------------------------------------------------
\* The Sync Coordinator alone: requests, responses and failures

LiveNext ==
  \/ syncWithServer
  \/ \E x \in inflight : \E sc \in ServerChanges(x.token) : \E ids \in SUBSET SentIds(x) :
        SyncSuccess(x, sc, ids)
  \/ \E x \in inflight : \E status \in {0, 401} : SyncFail(x, status)

LiveInit == ReadyFallback /\ limit = [ops |-> 0, syncs |-> LiveSyncs]

\* Every request sent is answered or fails: the browser ends every XHR with
\* load, error, timeout or abort, and HttpClient turns each into next/complete
\* or error
Answered ==
  \/ \E x \in inflight : \E sc \in ServerChanges(x.token) : \E ids \in SUBSET SentIds(x) :
        SyncSuccess(x, sc, ids)
  \/ \E x \in inflight : \E status \in {0, 401} : SyncFail(x, status)

LiveSpec == LiveInit /\ [][LiveNext]_vars /\ WF_vars(Answered)

----------------------------------------------------------------------------
\* Users signing in and out of one running application, and their local writes

\* An id no entity has
NoSuchId == 0 - 7

UserNext ==
  \/ \E u \in Users : Signin(u)
  \/ Signout
  \/ addTask
  \/ \E id \in IdsOf(tasks) \cup {NoSuchId} : updateTask(id)
  \/ \E id \in IdsOf(tasks) \cup {NoSuchId} : deleteTask(id)
  \/ addProject
  \/ \E id \in IdsOf(projects) \cup {NoSuchId} : updateProject(id)
  \/ \E id \in IdsOf(projects) \cup {NoSuchId} : deleteProject(id)

UserInit == ReadyFallback /\ limit = [ops |-> UserOps, syncs |-> 0]

UserSpec == UserInit /\ [][UserNext]_vars

----------------------------------------------------------------------------
\* Exchanges while users sign in and out and while localStorage may reject
\* writes

SessionNext ==
  \/ \E u \in Users : Signin(u)
  \/ Signout
  \/ syncWithServer
  \/ \E x \in inflight : \E sc \in ServerChanges(x.token) : \E ids \in SUBSET SentIds(x) :
        SyncSuccess(x, sc, ids)
  \/ \E x \in inflight : \E status \in {0, 401} : SyncFail(x, status)
  \/ \E x \in inflight : \E sc \in ServerChanges(x.token) : \E ids \in SUBSET SentIds(x) :
        SyncRecordFails(x, sc, ids)

SessionInit == ReadyFallback /\ limit = [ops |-> 0, syncs |-> SessionSyncs]

SessionSpec == SessionInit /\ [][SessionNext]_vars

\* One page session shared by users who sign out and in, add tasks and
\* synchronise
SwitchNext ==
  \/ \E u \in Users : Signin(u)
  \/ Signout
  \/ addTask
  \/ syncWithServer
  \/ \E x \in inflight : \E sc \in ServerChanges(x.token) : \E ids \in SUBSET SentIds(x) :
        SyncSuccess(x, sc, ids)
  \/ \E x \in inflight : \E status \in {0, 401} : SyncFail(x, status)

SwitchInit == ReadyFallback /\ limit = [ops |-> SwitchOps, syncs |-> SwitchSyncs]

SwitchSpec == SwitchInit /\ [][SwitchNext]_vars

----------------------------------------------------------------------------
\* Tasks added, changed and deleted, then synchronised

TaskNext ==
  \/ addTask
  \/ \E id \in IdsOf(tasks) : updateTask(id)
  \/ \E id \in IdsOf(tasks) : deleteTask(id)
  \/ syncWithServer
  \/ \E x \in inflight : \E sc \in ServerChanges(x.token) : \E ids \in SUBSET SentIds(x) :
        SyncSuccess(x, sc, ids)
  \/ \E x \in inflight : \E status \in {0, 401} : SyncFail(x, status)

TaskInit == ReadyFallback /\ limit = [ops |-> TaskOps, syncs |-> TaskSyncs]

TaskSpec == TaskInit /\ [][TaskNext]_vars

----------------------------------------------------------------------------
\* Imports and exchanges in a browser whose localStorage may reject writes

QuotaNext ==
  \/ \E data \in Backups(user) : importData(data)
  \/ \E data \in Backups(user) : importDataStoreFails(data)
  \/ syncWithServer
  \/ \E x \in inflight : \E sc \in ServerChanges(x.token) : \E ids \in SUBSET SentIds(x) :
        SyncSuccess(x, sc, ids)
  \/ \E x \in inflight : \E sc \in ServerChanges(x.token) : \E ids \in SUBSET SentIds(x) :
        SyncRecordFails(x, sc, ids)

QuotaInit == ReadyFallback /\ limit = [ops |-> QuotaOps, syncs |-> QuotaSyncs]

QuotaSpec == QuotaInit /\ [][QuotaNext]_vars

----------------------------------------------------------------------------

\* The initialisation in a browser profile whose stored items may be corrupted

\* The profile of a session of A with the log in localStorage, one or all of
\* A's three items corrupted since
CorruptProfiles ==
  LET base == savePendingToLocalStorage(
                saveToStorage(EmptyStore, "A", <<PriorTask>>, <<>>), "A", <<PriorChange>>)
      keys == {getStorageKeys("A").TASKS_KEY, getStorageKeys("A").PROJECTS_KEY,
               getStorageKeys("A").PENDING_CHANGES_KEY}
  IN {[ls |-> [k \in StorageKeys |-> IF k \in bad THEN Corrupt ELSE base[k]],
       idb |-> EmptyIdb] : bad \in {{k} : k \in keys} \cup {keys}}

LoadNext ==
  \/ \E ok \in BOOLEAN : InitOpened(ok)
  \/ LoadPendingResume
  \/ IdbComplete
  \/ addTask

LoadInit ==
  /\ ConstructedOn(InitialProfiles \cup CorruptProfiles)
  /\ limit = [ops |-> LoadOps, syncs |-> 0]

LoadSpec == LoadInit /\ [][LoadNext]_vars

\* A's session starting on what an earlier session of A left: one task in the
\* Local Store and its create mutation in IndexedDB or in the localStorage
\* fallback
RaceInit ==
  /\ ConstructedOn({p \in InitialProfiles : p.ls # EmptyStore})
  /\ user = "A"
  /\ limit = [ops |-> RaceOps, syncs |-> 0]

\* Local mutations before, during and after the asynchronous initialisation;
\* IndexedDB opens whenever the earlier session left its log there
RaceNext ==
  \/ \E ok \in {b \in BOOLEAN : b \/ idb[Namespace(user)] = <<>>} : InitOpened(ok)
  \/ LoadPendingResume
  \/ IdbComplete
  \/ addTask

RaceSpec == RaceInit /\ [][RaceNext]_vars

\* The page is reloaded once the storage writes have completed: the service is
\* constructed again on what localStorage and IndexedDB hold
Restart ==
  /\ clock < limit.ops
  /\ clock' = clock + 1
  /\ idbTxns = <<>>
  /\ initPc = "done"
  /\ inflight = {}
  /\ tasks' = <<>>
  /\ projects' = <<>>
  /\ pendingChanges' = <<>>
  /\ isSyncInProgress' = FALSE
  /\ syncQueue' = <<>>
  /\ syncStatus' = "idle"
  /\ db' = FALSE
  /\ initPc' = "opening"
  /\ initCtx' = [userId |-> "anonymous", changes |-> <<>>]
  /\ dirty' = FALSE
  /\ ev' = [kind |-> "restart"]
  /\ UNCHANGED <<limit, remote, lastOk, user, inflight, cold, localStorage, idb, idbTxns,
                 reqCount, startOrder>>

\* Sessions one after another in one browser profile, IndexedDB opening or
\* failing to open in each
RestartNext ==
  \/ \E ok \in BOOLEAN : InitOpened(ok)
  \/ LoadPendingResume
  \/ IdbComplete
  \/ initPc = "done" /\ addTask
  \/ Restart

RestartInit ==
  /\ ConstructedOn({[ls |-> EmptyStore, idb |-> EmptyIdb]})
  /\ user = "A"
  /\ limit = [ops |-> RestartOps, syncs |-> 0]

RestartSpec == RestartInit /\ [][RestartNext]_vars

----------------------------------------------------------------------------

\* The Mutation Log and its durable copies: appends, imports and confirmations
\* with the IndexedDB transactions they start, IndexedDB opened or not

DurableNext ==
  \/ addTask
  \/ \E data \in Backups(user) : importData(data)
  \/ syncWithServer
  \/ \E x \in inflight : \E sc \in ServerChanges(x.token) : \E ids \in SUBSET SentIds(x) :
        SyncSuccess(x, sc, ids)
  \/ IdbComplete

DurableInit == Ready /\ limit = [ops |-> DurableOps, syncs |-> DurableSyncs]

DurableSpec == DurableInit /\ [][DurableNext]_vars

\* transaction.onerror of the oldest transaction (quota exceeded, a failed
\* request): the store keeps what it held; saveToIndexedDB and
\* clearFromIndexedDB log and resolve(), so the continuation runs as after a
\* completed write and no .catch handler runs
IdbFails ==
  /\ idbTxns # <<>>
  /\ LET t == Head(idbTxns)
     IN IF t.op = "save"
        THEN /\ idbTxns' = Tail(idbTxns)
             /\ IF t.migrate
                THEN /\ localStorage' = [localStorage EXCEPT ![t.key] = NoItem]
                     /\ initPc' = "done"
                ELSE UNCHANGED <<localStorage, initPc>>
        ELSE /\ idbTxns' = Append(Tail(idbTxns), SaveTxn(t.userId, t.changes))
             /\ UNCHANGED <<localStorage, initPc>>
  /\ ev' = [kind |-> "idberror"]
  /\ UNCHANGED <<limit, remote, lastOk, user, cacheVars, pendingChanges, syncVars, db, idb,
                 initCtx, clock, dirty>>

\* A session in which IndexedDB writes complete or fail
FailNext ==
  \/ addTask
  \/ syncWithServer
  \/ \E x \in inflight : \E sc \in ServerChanges(x.token) : \E ids \in SUBSET SentIds(x) :
        SyncSuccess(x, sc, ids)
  \/ IdbComplete
  \/ IdbFails

FailInit == Ready /\ limit = [ops |-> FailOps, syncs |-> FailSyncs]

FailSpec == FailInit /\ [][FailNext]_vars

----------------------------------------------------------------------------

\* The remote store (netlify/functions/sync-data.js over the tables of
\* init-db.js), another client of the same user, and this client's exchanges
\* with it. The clock is the wall clock of both sides.

\* A row of tasks or projects: created_at and updated_at are the client's
\* createdAt and updatedAt
Row(id, userId, val, created, at) ==
  [id |-> id, userId |-> userId, val |-> val, created |-> created, at |-> at]

\* The updatedAt within val: this client's vals are the instants of its writes;
\* another client's edit made at instant t has val -(t + 1)
UpdatedAt(val) == IF val < 0 THEN (0 - val) - 1 ELSE val

\* The content another client gives an entity at instant t
OtherEdit(t) == 0 - (t + 1)

\* { ...row, createdAt: row.created_at, updatedAt: row.updated_at }
RowEntity(row) == Entity(row.id, row.userId, row.val)

RECURSIVE InsertDesc(_, _)
\* row put into rows, which are in descending created_at, after its equals
InsertDesc(rows, row) ==
  IF rows = <<>> THEN <<row>>
  ELSE IF Head(rows).created >= row.created
       THEN <<Head(rows)>> \o InsertDesc(Tail(rows), row)
       ELSE <<row>> \o rows

RECURSIVE OrderByCreatedDesc(_)
\* ORDER BY created_at DESC
OrderByCreatedDesc(rows) ==
  IF rows = <<>> THEN <<>>
  ELSE InsertDesc(OrderByCreatedDesc(Tail(rows)), Head(rows))

\* WHERE user_id = userId [AND updated_at > lastSync]; !lastSync selects all
SelectSince(rows, lastSync, userId) ==
  SelectSeq(rows, LAMBDA r : r.userId = userId /\ (~lastSync.present \/ r.at > lastSync.json))

RECURSIVE RowEntities(_)
RowEntities(rows) ==
  IF rows = <<>> THEN <<>> ELSE <<RowEntity(Head(rows))>> \o RowEntities(Tail(rows))

\* getServerDataSince(lastSync, userId)
getServerDataSince(store, lastSync, userId) ==
  [tasks |-> RowEntities(OrderByCreatedDesc(SelectSince(store.tasks, lastSync, userId))),
   projects |-> RowEntities(OrderByCreatedDesc(SelectSince(store.projects, lastSync, userId)))]

\* One change of processClientChanges' loop on a table: r.rows the table, r.ids
\* the ids pushed to results. INSERT fails on an id the table has (PRIMARY KEY);
\* UPDATE of no row gives undefined, whose created_at throws; both errors are
\* caught and logged, and nothing is pushed. DELETE always pushes.
ApplyChange(r, change, userId) ==
  LET id == change.data.id
      owned(row) == row.id = id /\ row.userId = userId
  IN IF change.action = "create"
     THEN IF id \in IdsOf(r.rows) THEN r
          ELSE [rows |-> Append(r.rows, Row(id, userId, change.data.val,
                                            UpdatedAt(change.data.val),
                                            UpdatedAt(change.data.val))),
                ids |-> r.ids \cup {id}]
     ELSE IF change.action = "update"
     THEN IF \E i \in DOMAIN r.rows : owned(r.rows[i])
          THEN [rows |-> [i \in DOMAIN r.rows |->
                            IF owned(r.rows[i])
                            THEN [r.rows[i] EXCEPT !.val = change.data.val,
                                                   !.at = UpdatedAt(change.data.val)]
                            ELSE r.rows[i]],
                ids |-> r.ids \cup {id}]
          ELSE r
     ELSE [rows |-> SelectSeq(r.rows, LAMBDA row : ~owned(row)),
           ids |-> r.ids \cup {id}]

RECURSIVE ApplyChanges(_, _, _)
\* for (const item of clientTasks) { ... }
ApplyChanges(r, changes, userId) ==
  IF changes = <<>> THEN r
  ELSE ApplyChanges(ApplyChange(r, Head(changes), userId), Tail(changes), userId)

\* processClientChanges(clientTasks, clientProjects, userId)
processClientChanges(store, clientTasks, clientProjects, userId) ==
  [tasks |-> ApplyChanges([rows |-> store.tasks, ids |-> {}], clientTasks, userId),
   projects |-> ApplyChanges([rows |-> store.projects, ids |-> {}], clientProjects, userId)]

\* The POST handler on the request of exchange x: the rows since lastSync are
\* read, then the client's changes are applied, then the response is sent
ServerProcesses(x) ==
  /\ x \in inflight
  /\ x.token # NoUser
  /\ \A r \in remote.responses : r.req # x.req
  /\ LET serverData == getServerDataSince(remote, x.lastSync, x.token)
         clientChanges == processClientChanges(remote, x.tasks, x.projects, x.token)
     IN remote' = [tasks |-> clientChanges.tasks.rows,
                   projects |-> clientChanges.projects.rows,
                   responses |-> remote.responses \cup
                      {[req |-> x.req,
                        serverChanges |-> serverData,
                        ids |-> clientChanges.tasks.ids \cup clientChanges.projects.ids,
                        newLastSync |-> clock + 1]}]
  /\ clock' = clock + 1
  /\ ev' = NoEv
  /\ UNCHANGED <<limit, lastOk, user, cacheVars, pendingChanges, syncVars, localStorage,
                 idbVars, initVars, dirty>>

\* The response to exchange x arrives
ResponseArrives(x) ==
  \E r \in remote.responses :
    /\ r.req = x.req
    /\ Respond(x, r.serverChanges, r.ids, r.newLastSync)
    /\ remote' = [remote EXCEPT !.responses = @ \ {r}]

\* The request or the response of exchange x is lost, while the user will ask
\* for another sync
ExchangeLost(x) ==
  /\ reqCount < limit.syncs
  /\ SyncFail(x, 0)

\* The id of the task another client of the user creates
OtherId(u) == OwnId(u) - 10

\* The instants another client's clock may have shown when it made its edit of
\* the task id, which it sends now: any instant after the stored edit of the
\* row, or any instant up to now for a task it creates
Stamps(id) ==
  IF id \in IdsOf(remote.tasks)
  THEN LET row == CHOOSE r \in Range(remote.tasks) : r.id = id
       IN (row.at + 1)..(clock + 1)
  ELSE 0..(clock + 1)

\* Another client of the user has a change of the task id applied by the POST
\* handler: the create of its own task, or an update of a task the remote
\* store holds, with the updatedAt (at) its clock gave the edit
OtherClientWrites(u, id, at) ==
  /\ reqCount < limit.syncs
  /\ id \in IdsOf(remote.tasks) \cup {OtherId(u)}
  /\ \A i \in DOMAIN remote.tasks : remote.tasks[i].id = id => remote.tasks[i].val >= 0
  /\ LET action == IF id \in IdsOf(remote.tasks) THEN "update" ELSE "create"
         change == Change("task", action, Tagged(Entity(id, u, OtherEdit(at)), action), at)
         applied == ApplyChange([rows |-> remote.tasks, ids |-> {}], change, u)
     IN remote' = [remote EXCEPT !.tasks = applied.rows]
  /\ clock' = clock + 1
  /\ ev' = NoEv
  /\ UNCHANGED <<limit, lastOk, user, cacheVars, pendingChanges, syncVars, localStorage,
                 idbVars, initVars, dirty>>

RemoteNext ==
  \/ addTask
  \/ \E id \in IdsOf(tasks) : updateTask(id)
  \/ \E id \in IdsOf(tasks) : deleteTask(id)
  \/ syncWithServer
  \/ \E x \in inflight : ServerProcesses(x)
  \/ \E x \in inflight : ResponseArrives(x)
  \/ \E x \in inflight : ExchangeLost(x)
  \/ \E id \in IdsOf(remote.tasks) \cup {OtherId(user)} : \E at \in Stamps(id) :
        OtherClientWrites(user, id, at)

RemoteInit == ReadyFallback /\ limit = [ops |-> RemoteOps, syncs |-> RemoteSyncs]

RemoteSpec == RemoteInit /\ [][RemoteNext]_vars

\* Local mutations have stopped, and the user will ask for another sync
\* (whose exchange is not lost)
LocalStopped == clock >= limit.ops /\ reqCount < limit.syncs

\* Syncs keep being attempted, the handler answers every request that reaches
\* it and the browser delivers every response that is not lost
RemoteLiveSpec ==
  /\ RemoteInit
  /\ [][RemoteNext]_vars
  /\ WF_vars(syncWithServer)
  /\ WF_vars(\E x \in inflight : ServerProcesses(x))
  /\ WF_vars(\E x \in inflight : ResponseArrives(x))

----------------------------------------------------------------------------
\* Every operation that puts entities into the Entity Cache: creation, update,
\* delete, import and the merge of a response

\* Backup files exported by now: their entities carry ids generated earlier,
\* in the user's earlier session or in this one, which the cache may hold
IdBackups(now) ==
  { data \in
      { [tasks |-> <<Entity(1, "A", 0), Entity(OwnId("A"), "A", 0)>>, projects |-> <<>>,
         hasPending |-> FALSE, pendingChanges |-> <<>>],
        [tasks |-> <<Entity(2, "A", 0)>>, projects |-> <<Entity(2, "A", 0)>>,
         hasPending |-> TRUE, pendingChanges |-> <<>>],
        [tasks |-> <<Entity(OwnId("A"), "A", 0)>>, projects |-> <<Entity(OwnId("A"), "A", 0)>>,
         hasPending |-> FALSE, pendingChanges |-> <<>>] } :
      \A id \in IdsOf(data.tasks) \cup IdsOf(data.projects) : id <= now }

IdNext ==
  \/ addTask
  \/ addProject
  \/ \E id \in IdsOf(tasks) : updateTask(id)
  \/ \E id \in IdsOf(tasks) : deleteTask(id)
  \/ \E data \in IdBackups(clock) : importData(data)
  \/ syncWithServer
  \/ \E x \in inflight : \E sc \in ServerChanges(x.token) : \E ids \in SUBSET SentIds(x) :
        SyncSuccess(x, sc, ids)

IdInit == ReadyFallback /\ limit = [ops |-> IdOps, syncs |-> IdSyncs]

IdSpec == IdInit /\ [][IdNext]_vars

----------------------------------------------------------------------------
\* Backups made and restored in one session

\* exportData(): the collections and the log as they are (exportDate left out,
\* importData does not read it)
exportData ==
  [tasks |-> tasks, projects |-> projects, hasPending |-> TRUE,
   pendingChanges |-> pendingChanges]

LogNext ==
  \/ addTask
  \/ \E id \in IdsOf(tasks) : updateTask(id)
  \/ \E id \in IdsOf(tasks) : deleteTask(id)
  \/ \E data \in {exportData} : importData(data)
  \/ syncWithServer
  \/ \E x \in inflight : \E sc \in ServerChanges(x.token) : \E ids \in SUBSET SentIds(x) :
        SyncSuccess(x, sc, ids)

LogInit == ReadyFallback /\ limit = [ops |-> LogOps, syncs |-> LogSyncs]

LogSpec == LogInit /\ [][LogNext]_vars

----------------------------------------------------------------------------
\* The caller unsubscribing from the observable of its sync

\* The subscriber of exchange x unsubscribes (TodoComponent is destroyed,
\* takeUntil(destroy$) completes): HttpClient aborts the request, neither tap
\* nor catchError runs, finalize runs
Unsubscribe(x) ==
  /\ x \in inflight
  /\ ev' = [kind |-> "unsubscribed", sent |-> x.tasks \o x.projects,
            started |-> processNextQueuedSync(syncQueue).start]
  /\ Finalize(x, syncStatus, user, localStorage, pendingChanges, tasks, projects)
  /\ UNCHANGED <<limit, remote, lastOk, user, cacheVars, pendingChanges, localStorage,
                 idbVars, initVars, clock, reqCount, cold>>

CancelNext ==
  \/ addTask
  \/ syncWithServer
  \/ \E x \in inflight : \E sc \in ServerChanges(x.token) : \E ids \in SUBSET SentIds(x) :
        SyncSuccess(x, sc, ids)
  \/ \E x \in inflight : \E status \in {0, 401} : SyncFail(x, status)
  \/ \E x \in inflight : Unsubscribe(x)

CancelInit == ReadyFallback /\ limit = [ops |-> CancelOps, syncs |-> CancelSyncs]

\* Every request that is not aborted is answered or fails
CancelSpec == CancelInit /\ [][CancelNext]_vars /\ WF_vars(Answered)

----------------------------------------------------------------------------
\* The observable of syncWithServer subscribed later than the call, or never

\* syncWithServer() called and its observable kept: behind the lock the
\* observable's subscribe function is all there is; otherwise performSync() has
\* run its body (lock, status, the request built from the log and the last-sync
\* timestamp of now) and returned the request's pipeline unsubscribed
syncWithServerCall ==
  /\ reqCount < limit.syncs
  /\ reqCount' = reqCount + 1
  /\ IF LockHeld
     THEN /\ cold' = cold \cup {[req |-> reqCount + 1, queued |-> TRUE, send |-> <<>>]}
          /\ UNCHANGED <<isSyncInProgress, syncStatus, dirty>>
     ELSE /\ isSyncInProgress' = TRUE
          /\ syncStatus' = "syncing"
          /\ cold' = cold \cup
                {[req |-> reqCount + 1, queued |-> FALSE,
                  send |-> <<Exchange(reqCount + 1, user, localStorage, pendingChanges,
                                      tasks, projects)>>]}
          /\ dirty' = FALSE
  /\ ev' = NoEv
  /\ UNCHANGED <<limit, remote, lastOk, user, cacheVars, pendingChanges, localStorage, idbVars,
                 initVars, clock, syncQueue, inflight, startOrder>>

\* subscribe(...) on a kept observable o: the closure is pushed on the queue,
\* or the request is sent
Subscribe(o) ==
  /\ o \in cold
  /\ cold' = cold \ {o}
  /\ IF o.queued
     THEN /\ syncQueue' = Append(syncQueue, o.req)
          /\ UNCHANGED <<inflight, startOrder>>
     ELSE /\ inflight' = inflight \cup {Head(o.send)}
          /\ startOrder' = Append(startOrder, o.req)
          /\ UNCHANGED syncQueue
  /\ ev' = [kind |-> "subscribed", queued |-> o.queued]
  /\ UNCHANGED <<limit, remote, lastOk, user, cacheVars, pendingChanges, localStorage, idbVars,
                 initVars, clock, reqCount, isSyncInProgress, syncStatus, dirty>>

LateNext ==
  \/ syncWithServer
  \/ syncWithServerCall
  \/ \E o \in cold : Subscribe(o)
  \/ \E x \in inflight : \E sc \in ServerChanges(x.token) : \E ids \in SUBSET SentIds(x) :
        SyncSuccess(x, sc, ids)
  \/ \E x \in inflight : \E status \in {0, 401} : SyncFail(x, status)

LateInit == ReadyFallback /\ limit = [ops |-> 0, syncs |-> LateSyncs]

LateSpec == LateInit /\ [][LateNext]_vars

----------------------------------------------------------------------------

\* The sync endpoint on its tables, called by two users

\* project_id IS NULL
NoProject == 0 - 1

\* The ids of the tasks and of the projects the requests carry
TaskIds == {1}
ProjectIds == {5}

\* A row of tasks: a row of the remote store with its project_id
TaskRow(id, userId, val, projectId) ==
  [id |-> id, userId |-> userId, val |-> val, created |-> 0, at |-> 0,
   projectId |-> projectId]

\* project_id REFERENCES projects(id): the key is null or a project's id
References(projectRows, projectId) ==
  projectId = NoProject \/ projectId \in IdsOf(projectRows)

\* ON DELETE SET NULL, on the tasks that reference the deleted project
SetNull(taskRows, projectId) ==
  [i \in DOMAIN taskRows |->
     IF taskRows[i].projectId = projectId
     THEN [taskRows[i] EXCEPT !.projectId = NoProject]
     ELSE taskRows[i]]

\* One item of processClientChanges' first loop, on s = [tasks, projects, ids]:
\* INSERT fails on an id the table has and on a project_id no project has;
\* UPDATE of no row gives undefined, whose created_at throws; the errors are
\* caught and nothing is pushed. DELETE always pushes.
ApplyTaskChange(s, change, userId) ==
  LET id == change.data.id
      owned(row) == row.id = id /\ row.userId = userId
  IN IF change.action = "create"
     THEN IF id \in IdsOf(s.tasks) \/ ~References(s.projects, change.data.projectId)
          THEN s
          ELSE [s EXCEPT !.tasks = Append(@, TaskRow(id, userId, change.data.val,
                                                     change.data.projectId)),
                         !.ids = @ \cup {id}]
     ELSE IF change.action = "update"
     THEN IF /\ \E i \in DOMAIN s.tasks : owned(s.tasks[i])
             /\ References(s.projects, change.data.projectId)
          THEN [s EXCEPT !.tasks = [i \in DOMAIN s.tasks |->
                                      IF owned(s.tasks[i])
                                      THEN [s.tasks[i] EXCEPT
                                              !.val = change.data.val,
                                              !.projectId = change.data.projectId]
                                      ELSE s.tasks[i]],
                         !.ids = @ \cup {id}]
          ELSE s
     ELSE [s EXCEPT !.tasks = SelectSeq(@, LAMBDA row : ~owned(row)),
                    !.ids = @ \cup {id}]

\* One item of processClientChanges' second loop; the DELETE of a project sets
\* project_id to null in every task that references it
ApplyProjectChange(s, change, userId) ==
  LET id == change.data.id
      owned(row) == row.id = id /\ row.userId = userId
  IN IF change.action = "create"
     THEN IF id \in IdsOf(s.projects) THEN s
          ELSE [s EXCEPT !.projects = Append(@, Row(id, userId, change.data.val, 0, 0)),
                         !.ids = @ \cup {id}]
     ELSE IF change.action = "update"
     THEN IF \E i \in DOMAIN s.projects : owned(s.projects[i])
          THEN [s EXCEPT !.projects = [i \in DOMAIN s.projects |->
                                         IF owned(s.projects[i])
                                         THEN [s.projects[i] EXCEPT !.val = change.data.val]
                                         ELSE s.projects[i]],
                         !.ids = @ \cup {id}]
          ELSE s
     ELSE IF \E i \in DOMAIN s.projects : owned(s.projects[i])
          THEN [tasks |-> SetNull(s.tasks, id),
                projects |-> SelectSeq(s.projects, LAMBDA row : ~owned(row)),
                ids |-> s.ids \cup {id}]
          ELSE [s EXCEPT !.ids = @ \cup {id}]

RECURSIVE ApplyTaskChanges(_, _, _)
ApplyTaskChanges(s, changes, userId) ==
  IF changes = <<>> THEN s
  ELSE ApplyTaskChanges(ApplyTaskChange(s, Head(changes), userId), Tail(changes), userId)

RECURSIVE ApplyProjectChanges(_, _, _)
ApplyProjectChanges(s, changes, userId) ==
  IF changes = <<>> THEN s
  ELSE ApplyProjectChanges(ApplyProjectChange(s, Head(changes), userId), Tail(changes), userId)

\* The changes a request can carry: a create, an update or a delete of a task
\* or of a project, whatever userId and projectId its payload names
TaskChanges ==
  {Change("task", action,
          [id |-> id, userId |-> u, val |-> 1, tag |-> action, projectId |-> pid], 0) :
     action \in {"create", "update"}, id \in TaskIds, u \in Users,
     pid \in ProjectIds \cup {NoProject}}
    \cup {Change("task", "delete", DeleteData(id), 0) : id \in TaskIds}

ProjectChanges ==
  {Change("project", action, Tagged(Entity(id, u, 1), action), 0) :
     action \in {"create", "update"}, id \in ProjectIds, u \in Users}
    \cup {Change("project", "delete", DeleteData(id), 0) : id \in ProjectIds}

\* Request bodies: one task change, one project change, or both
Bodies ==
  {[tasks |-> ts, projects |-> ps, lastSync |-> NoItem] :
     ts \in {<<>>} \cup {<<c>> : c \in TaskChanges},
     ps \in {<<>>} \cup {<<c>> : c \in ProjectChanges}}

\* The POST handler on a request with the credential of token (NoUser: none or
\* an invalid one) and body
Post(token, body) ==
  /\ IF token = NoUser
     THEN /\ ev' = [kind |-> "post", status |-> 401, token |-> token, body |-> body,
                    serverChanges |-> [tasks |-> <<>>, projects |-> <<>>],
                    confirmed |-> {}]
          /\ UNCHANGED remote
     ELSE LET serverData == getServerDataSince(remote, body.lastSync, token)
              start == [tasks |-> remote.tasks, projects |-> remote.projects, ids |-> {}]
              afterTasks == ApplyTaskChanges(start, body.tasks, token)
              after == ApplyProjectChanges([afterTasks EXCEPT !.ids = {}],
                                           body.projects, token)
          IN /\ remote' = [remote EXCEPT !.tasks = after.tasks,
                                         !.projects = after.projects]
             /\ ev' = [kind |-> "post", status |-> 200, token |-> token, body |-> body,
                       serverChanges |-> serverData,
                       confirmed |-> afterTasks.ids \cup after.ids]
  /\ UNCHANGED <<limit, lastOk, user, cacheVars, pendingChanges, syncVars, localStorage,
                 idbVars, initVars, clock, dirty>>

ServerNext == \E token \in Users \cup {NoUser} : \E body \in Bodies : Post(token, body)

\* The tables empty, the client at rest
ServerInit == ReadyFallback /\ limit = [ops |-> 0, syncs |-> 0]

ServerSpec == ServerInit /\ [][ServerNext]_vars

----------------------------------------------------------------------------
\* The merge step and the confirmation step on their own, applied to caches,
\* logs, payloads and confirmation lists of every shape up to MaxLen

EntityIds == {1, 2, 3}

SeqsUpTo(S, n) == UNION {[1..k -> S] : k \in 0..n}

\* ids are keys: generateId for local entities, the primary key for server rows
HasUniqueIds(s) == \A i, j \in DOMAIN s : i # j => s[i].id # s[j].id

\* Entity Caches of user A: entities as the server last sent them (val 0) or
\* with a local edit (val 1)
Caches ==
  {s \in SeqsUpTo({Entity(id, "A", v) : id \in EntityIds, v \in {0, 1}}, MaxLen) :
     HasUniqueIds(s)}

\* response.serverChanges: the rows of getServerDataSince
Payloads ==
  {[tasks |-> t, projects |-> p] :
     t \in {s \in SeqsUpTo({ServerRow(id, "A") : id \in EntityIds}, MaxLen) : HasUniqueIds(s)},
     p \in {<<>>, <<ServerRow(1, "A")>>}}

\* Mutations a log can hold: it takes whatever a backup file brings
Changes ==
  { Change("task", "create", Tagged(Entity(1, "A", 0), "create"), 0),
    Change("task", "update", Tagged(Entity(1, "A", 1), "update"), 0),
    Change("task", "delete", DeleteData(2), 0),
    Change("project", "create", Tagged(Entity(4, "A", 0), "create"), 0) }

Logs == SeqsUpTo(Changes, MaxLen)

\* response.confirmed: the rows of processClientChanges
Confirmations ==
  {[tasks |-> t, projects |-> p] :
     t \in SeqsUpTo({[id |-> id] : id \in EntityIds}, MaxLen),
     p \in {<<>>, <<[id |-> 4]>>}}

\* A service at rest in a session of A, holding ts, ps and log, IndexedDB not
\* having opened
AtRestWith(ts, ps, log, lim) ==
  /\ user = "A"
  /\ tasks = ts
  /\ projects = ps
  /\ pendingChanges = log
  /\ isSyncInProgress = FALSE
  /\ syncQueue = <<>>
  /\ syncStatus = "idle"
  /\ inflight = {}
  /\ cold = {}
  /\ localStorage = savePendingToLocalStorage(
                       saveToStorage(EmptyStore, "A", ts, ps), "A", log)
  /\ db = FALSE
  /\ idb = EmptyIdb
  /\ idbTxns = <<>>
  /\ initPc = "done"
  /\ initCtx = [userId |-> "anonymous", changes |-> <<>>]
  /\ clock = 0
  /\ reqCount = 0
  /\ startOrder = <<>>
  /\ dirty = TRUE
  /\ lastOk = NoneYet
  /\ remote = NoRemote
  /\ ev = NoEv
  /\ limit = lim

AtRest(ts, ps, log) == AtRestWith(ts, ps, log, [ops |-> 0, syncs |-> 0])

\* updateLocalData(serverData)
updateLocalData(serverData) ==
  /\ tasks' = MergeById(tasks, serverData.tasks)
  /\ projects' = MergeById(projects, serverData.projects)
  /\ localStorage' = saveToStorage(localStorage, user, tasks', projects')
  /\ ev' = [kind |-> "merge", rows |-> serverData,
            before |-> [tasks |-> tasks, projects |-> projects],
            again |-> ev.kind = "merge" /\ ev.rows = serverData]
  /\ UNCHANGED <<limit, remote, lastOk, user, pendingChanges, syncVars, idbVars, initVars, clock, dirty>>

MergeInit ==
  \E ts \in Caches : \E ps \in {<<>>, <<Entity(1, "A", 1)>>} : AtRest(ts, ps, <<>>)

MergeNext == \E serverData \in Payloads : updateLocalData(serverData)

MergeSpec == MergeInit /\ [][MergeNext]_vars

\* clearConfirmedChanges(confirmed)
clearConfirmedChanges(confirmed) ==
  LET remaining == Remaining(pendingChanges, ConfirmedIds(confirmed))
  IN /\ pendingChanges' = remaining
     /\ localStorage' = IF db THEN localStorage
                        ELSE savePendingToLocalStorage(localStorage, user, remaining)
     /\ idbTxns' = IF db
                   THEN Append(idbTxns, ClearTxn(Namespace(user),
                                                 ConfirmedIds(confirmed), remaining))
                   ELSE idbTxns
     /\ ev' = [kind |-> "clear", ids |-> ConfirmedIds(confirmed),
               before |-> pendingChanges,
               first |-> IF ev.kind = "clear" /\ ev.ids = ConfirmedIds(confirmed)
                         THEN ev.first ELSE pendingChanges,
               again |-> ev.kind = "clear" /\ ev.ids = ConfirmedIds(confirmed)]
     /\ UNCHANGED <<limit, remote, lastOk, user, cacheVars, syncVars, db, idb, initVars, clock, dirty>>

\* Backup files of user A: entities as exported (val 2), with pendingChanges
\* absent, empty or holding one mutation
Exports ==
  {[tasks |-> t, projects |-> p, hasPending |-> h[1], pendingChanges |-> h[2]] :
     t \in {<<>>, <<Entity(1, "A", 2)>>, <<Entity(3, "A", 2), Entity(1, "A", 2)>>,
            <<Entity(2, "A", 2), Entity(3, "A", 2)>>},
     p \in {<<>>, <<Entity(1, "A", 2)>>},
     h \in {<<FALSE, <<>>>>, <<TRUE, <<>>>>,
            <<TRUE, <<Change("task", "update", Tagged(Entity(1, "A", 2), "update"), 0)>>>>}}

ImportInit ==
  \E ts \in Caches : \E ps \in {<<>>, <<Entity(1, "A", 1)>>, <<Entity(4, "A", 1)>>} :
    \E log \in {<<>>, <<Change("task", "delete", DeleteData(2), 0)>>} :
      AtRestWith(ts, ps, log, [ops |-> ImportOps, syncs |-> 0])

ImportNext == \E data \in Exports : importData(data)

ImportSpec == ImportInit /\ [][ImportNext]_vars

----------------------------------------------------------------------------
\* getStatistics on task snapshots of every shape up to StatsLen

\* Instants are counted in half days of the local time zone
DayLength == 2

\* task.dueDate is undefined (or null, as the server sends it)
NoDue == 0 - 1

\* Due dates: late yesterday, the start of today, late today, the start of
\* tomorrow, when getStatistics runs today
DueDates == {NoDue, 1, 2, 3, 4}

\* The instants of today at which getStatistics runs
Nows == {2, 3}

\* A task with the fields getStatistics reads
StatTask(id, completed, dueDate) ==
  [id |-> id, userId |-> "A", val |-> 0, completed |-> completed, dueDate |-> dueDate]

Snapshots ==
  UNION {{[i \in 1..k |-> StatTask(i, f[i][1], f[i][2])] :
            f \in [1..k -> BOOLEAN \X DueDates]} : k \in 0..StatsLen}

\* Mutant: today is the instant of the call
StartIsNow(t) == t

\* new Date(now.getFullYear(), now.getMonth(), now.getDate())
StartOfDay(t) == t - (t % DayLength)

\* Date.prototype.toDateString(): the calendar day of an instant
toDateString(t) == t \div DayLength

\* the stats object of getStatistics for the snapshot ts at the instant now
Statistics(ts, now) ==
  LET today == StartOfDay(now)
  IN [ total |-> Len(ts),
       completed |-> Len(SelectSeq(ts, LAMBDA task : task.completed)),
       active |-> Len(SelectSeq(ts, LAMBDA task : ~task.completed)),
       overdue |-> Len(SelectSeq(ts, LAMBDA task :
                     ~task.completed /\ task.dueDate # NoDue /\ task.dueDate < today)),
       dueToday |-> Len(SelectSeq(ts, LAMBDA task :
                     /\ ~task.completed
                     /\ task.dueDate # NoDue
                     /\ toDateString(task.dueDate) = toDateString(today))) ]

\* getStatistics().subscribe(...): observer.next(stats)
getStatistics(now) ==
  /\ ev' = [kind |-> "stats", now |-> now, stats |-> Statistics(tasks, now)]
  /\ UNCHANGED <<limit, remote, lastOk, user, cacheVars, pendingChanges, syncVars, localStorage,
                 idbVars, initVars, clock, dirty>>

StatsInit == \E ts \in Snapshots : AtRest(ts, <<>>, <<>>)

StatsNext == \E now \in Nows : getStatistics(now)

StatsSpec == StatsInit /\ [][StatsNext]_vars

ConfirmInit == \E log \in Logs : AtRest(<<>>, <<>>, log)

ConfirmNext == \E confirmed \in Confirmations : clearConfirmedChanges(confirmed)

ConfirmSpec == ConfirmInit /\ [][ConfirmNext]_vars

----------------------------------------------------------------------------
\* Properties of the Sync Coordinator (SyncSpec, LiveSpec)

Started == Range(startOrder)

\* C1: at most one exchange with the remote store is in flight at any time;
\* every request gets one exchange of its own, none twice, and when nothing is
\* in flight or queued any more there have been exactly as many exchanges as
\* requests.
C1_SingleFlight ==
  /\ Cardinality(inflight) <= 1
  /\ \A i, j \in DOMAIN startOrder : i # j => startOrder[i] # startOrder[j]
  /\ Started \subseteq 1..reqCount
  /\ (inflight = {} /\ syncQueue = <<>>) => Len(startOrder) = reqCount

\* C1 witness: a request that was issued during an exchange has its own
\* exchange in flight, alone, started when the earlier one succeeded.
C1_Witness ==
  /\ ev.kind = "success"
  /\ ev.started # <<>>
  /\ \E x \in inflight : x.req = Head(ev.started) /\ inflight = {x}

\* C2 (as claimed): what a response removes from the log was in its request.
C2_RemovedWasSent ==
  ev.kind = "success" =>
    \A i \in DOMAIN ev.before :
      ev.before[i] \notin Range(pendingChanges) => ev.before[i] \in Range(ev.sent)

\* C3: after an exchange that failed, with no local change of the cache or the
\* log since it started, the log, the tasks and the projects are those of its
\* start, and all it sent is still pending.
C3_FailedSyncKeepsState ==
  (ev.kind = "fail" /\ ev.clean) =>
    /\ pendingChanges = ev.snap.log
    /\ tasks = ev.snap.tasks
    /\ projects = ev.snap.projects
    /\ Range(ev.sent) \subseteq Range(pendingChanges)

\* C3 witness: an exchange that carried mutations has failed, nothing local
\* having happened meanwhile, and entities are cached.
C3_Witness ==
  /\ ev.kind = "fail"
  /\ ev.clean
  /\ ev.sent # <<>>
  /\ tasks # <<>>

ExchangeEnds == \E x \in inflight : x \notin inflight'

\* C4: the deferred requests wait in the order of their issue, an exchange that
\* ends starts the oldest of them and only that one, and nothing is started
\* when none waits; so the exchanges start in the order of issue.
C4_Fifo ==
  [][ /\ \A i, j \in DOMAIN syncQueue' : i < j => syncQueue'[i] < syncQueue'[j]
      /\ \A i, j \in DOMAIN startOrder' : i < j => startOrder'[i] < startOrder'[j]
      /\ (ExchangeEnds /\ syncQueue # <<>>) =>
            /\ startOrder' = Append(startOrder, Head(syncQueue))
            /\ syncQueue' = Tail(syncQueue)
      /\ (ExchangeEnds /\ syncQueue = <<>>) => startOrder' = startOrder ]_vars

\* C4 witness: an exchange ended while two requests waited; the older one was
\* started and the newer one still waits.
C4_Witness ==
  /\ ev.kind \in {"success", "fail"}
  /\ ev.started # <<>>
  /\ syncQueue # <<>>
  /\ Head(syncQueue) = Head(ev.started) + 1
  /\ Last(startOrder) = Head(ev.started)

\* C5: a request deferred behind an exchange gets its own exchange, whether the
\* exchanges before it succeed or fail.
C5_QueuedIsStarted ==
  \A r \in 1..LiveSyncs : (r \in Range(syncQueue)) ~> (r \in Started)

\* C5 witness: a deferred request was started by the end of a failed exchange.
C5_Witness ==
  /\ ev.kind = "fail"
  /\ ev.started # <<>>
  /\ \E x \in inflight : x.req = Head(ev.started)

----------------------------------------------------------------------------
\* Properties of the merge step (MergeSpec) and of the confirmation (ConfirmSpec)

\* after merging rows into the cache before: each row is the cache's one entry
\* for its id, and the entities of other ids are the ones before held
ServerWins(before, rows, after) ==
  /\ \A i \in DOMAIN rows :
        /\ FindIndex(after, rows[i].id) # 0
        /\ after[FindIndex(after, rows[i].id)] = rows[i]
        /\ \A j \in DOMAIN after : after[j].id = rows[i].id => j = FindIndex(after, rows[i].id)
  /\ \A j \in DOMAIN before :
        before[j].id \notin IdsOf(rows) => before[j] \in Range(after)
  /\ \A j \in DOMAIN after :
        after[j].id \notin IdsOf(rows) => after[j] \in Range(before)

\* C6: after the merge step, for every entity in serverChanges the cache entry
\* with that id equals the server copy (inserted if absent, replaced whole if
\* present, local edits or not), and every cache entity whose id is not in
\* serverChanges is unchanged.
C6_ServerCopyWins ==
  ev.kind = "merge" =>
    /\ ServerWins(ev.before.tasks, ev.rows.tasks, tasks)
    /\ ServerWins(ev.before.projects, ev.rows.projects, projects)

\* C6 witness: one merge replaced a locally edited task, inserted a task the
\* cache did not have and left a third task alone.
C6_Witness ==
  /\ ev.kind = "merge"
  /\ \E e \in Range(ev.before.tasks) : e.val = 1 /\ e.id \in IdsOf(ev.rows.tasks)
  /\ \E r \in Range(ev.rows.tasks) : r.id \notin IdsOf(ev.before.tasks)
  /\ \E e \in Range(ev.before.tasks) : e.id \notin IdsOf(ev.rows.tasks) /\ e \in Range(tasks)

\* c1 and c2 hold the same entities in the same places, up to edits to the
\* entities whose ids are in ids
DifferOnlyInEdits(c1, c2, ids) ==
  /\ Len(c1) = Len(c2)
  /\ \A i \in DOMAIN c1 :
        /\ c1[i].id = c2[i].id
        /\ c1[i].id \notin ids => c1[i] = c2[i]

\* C7: merging a payload into two caches that differ only in local edits to
\* entities whose ids are in the payload gives identical caches, and merging
\* the same payload a second time leaves the cache as the first merge left it.
C7_MergeDeterministic ==
  ev.kind = "merge" =>
    /\ \A other \in Caches :
          DifferOnlyInEdits(ev.before.tasks, other, IdsOf(ev.rows.tasks)) =>
            MergeById(other, ev.rows.tasks) = tasks
    /\ ev.again => (tasks = ev.before.tasks /\ projects = ev.before.projects)

\* C7 witness: the same payload has been merged twice running, and it names an
\* entity that another cache holds with a different local edit.
C7_Witness ==
  /\ ev.kind = "merge"
  /\ ev.again
  /\ ev.rows.tasks # <<>>
  /\ \E other \in Caches :
        /\ other # ev.before.tasks
        /\ \E i \in DOMAIN other : other[i].val = 1 /\ other[i].id \in IdsOf(ev.rows.tasks)

\* C8: clearing the same confirmed ids a second time leaves the Mutation Log
\* as the first clearing left it.
C8_ClearIdempotent ==
  (ev.kind = "clear" /\ ev.again) => pendingChanges = ev.before

\* C8 witness: the same ids have been cleared twice running; the first clearing
\* took mutations out of the log and left others in it.
C8_Witness ==
  /\ ev.kind = "clear"
  /\ ev.again
  /\ ev.first # ev.before
  /\ pendingChanges # <<>>

----------------------------------------------------------------------------
\* Properties of the Mutation Log over a whole session (Spec) and of the Local
\* Store across users (UserSpec)

\* C9 (as claimed): a mutation in the in-memory Mutation Log is still in it
\* after any step, unless that step applies a sync response that lists the
\* mutation's entity id as confirmed.
C9_LogKeepsUnconfirmed ==
  [][\A i \in DOMAIN pendingChanges :
       \/ pendingChanges[i] \in Range(pendingChanges')
       \/ ev'.kind = "success" /\ pendingChanges[i].data.id \in ev'.confirmed]_vars

\* entities the Local Store holds under a namespace's task and project keys
StoredUnder(ns) ==
  Range(ParseOrEmpty(localStorage[<<"xtodo_tasks", ns>>]))
    \cup Range(ParseOrEmpty(localStorage[<<"xtodo_projects", ns>>]))

\* C10 (as claimed): no entity created under user A is stored under another
\* user's namespace or under the anonymous namespace, whatever the sequence of
\* sign-ins, sign-outs and local writes.
C10_UserIsolation ==
  \A ns \in Namespaces \ {"A"} : \A e \in StoredUnder(ns) : e.userId # "A"

----------------------------------------------------------------------------
\* Properties of a task's life, of the sync status and of a failed exchange
\* (TaskSpec, SyncSpec, SessionSpec)

\* the log is the create of one entity followed by its delete
AddedThenDeleted(log) ==
  /\ Len(log) = 2
  /\ log[1].action = "create"
  /\ log[2].action = "delete"
  /\ log[2].data.id = log[1].data.id

\* C11: when a task whose create is the only pending mutation is deleted before
\* any sync, the log holds a delete mutation with its id afterwards; and a
\* successful exchange that sent that log and whose response confirms the id
\* leaves the Mutation Log empty.
C11_AddDeleteSyncEmptiesLog ==
  [][ /\ ( /\ ev'.kind = "call"
           /\ ev'.op = "deleteTask"
           /\ ev'.outcome = "true"
           /\ reqCount = 0
           /\ Len(pendingChanges) = 1
           /\ pendingChanges[1].action = "create"
           /\ pendingChanges[1].data.id = ev'.id )
          => ( /\ AddedThenDeleted(pendingChanges')
               /\ pendingChanges'[2].data.id = ev'.id
               /\ pendingChanges'[1] = pendingChanges[1] )
      /\ ( /\ ev'.kind = "success"
           /\ AddedThenDeleted(pendingChanges)
           /\ ev'.sent = pendingChanges
           /\ pendingChanges[1].data.id \in ev'.confirmed )
          => pendingChanges' = <<>> ]_vars

\* C11 witness: an exchange that sent the create and the delete of one task has
\* succeeded, the response confirmed the task's id, and the log is empty.
C11_Witness ==
  /\ ev.kind = "success"
  /\ AddedThenDeleted(ev.before)
  /\ ev.sent = ev.before
  /\ ev.before[1].data.id \in ev.confirmed
  /\ ev.before[1].data.id \notin IdsOf(tasks)
  /\ pendingChanges = <<>>

\* C12 (as claimed): the sync status changes only along Idle -> Syncing ->
\* {Success, Error} -> Idle.
C12_StatusMachine ==
  [][syncStatus' # syncStatus =>
       <<syncStatus, syncStatus'>> \in
         { <<"idle", "syncing">>, <<"syncing", "success">>, <<"syncing", "error">>,
           <<"success", "idle">>, <<"error", "idle">> }]_vars

\* C13 (as claimed): after an exchange that ended with status Error, with no
\* local change of the cache or the log since it started, the tasks, the
\* projects and the log are those of its start, whether the transport failed or
\* the handling of the response did.
C13_ErrorKeepsState ==
  (ev.kind \in {"fail", "threw"} /\ ev.clean) =>
    /\ tasks = ev.snap.tasks
    /\ projects = ev.snap.projects
    /\ pendingChanges = ev.snap.log

\* C14 (as claimed): a stored last-sync timestamp changes only when an exchange
\* succeeds, and then to that response's newLastSync; and the lastSync a request
\* carries is the newLastSync of the last successful exchange of the request's
\* user, or null if that user has had none.
C14_LastSyncOfUser ==
  [][ /\ \A ns \in Namespaces :
           localStorage'[<<"xtodo_last_sync", ns>>] # localStorage[<<"xtodo_last_sync", ns>>]
             => /\ ev'.kind = "success"
                /\ localStorage'[<<"xtodo_last_sync", ns>>] = Stringify(ev'.newLastSync)
      /\ \A x \in inflight' : x.lastSync = lastOk'[Namespace(x.token)] ]_vars

----------------------------------------------------------------------------
\* Properties of the local operations (UserSpec)

\* the step is a call of op
Called(op) == ev'.kind = "call" /\ ev'.op = op

\* the step appends exactly one mutation of this type and action, carrying data
AppendsOne(type, action, data) ==
  /\ Len(pendingChanges') = Len(pendingChanges) + 1
  /\ SubSeq(pendingChanges', 1, Len(pendingChanges)) = pendingChanges
  /\ Last(pendingChanges').type = type
  /\ Last(pendingChanges').action = action
  /\ Last(pendingChanges').data = data

C16_AddUnauthenticatedThrows ==
  [][ (ev'.kind = "call" /\ ev'.op \in {"addTask", "addProject"} /\ user = NoUser) =>
        /\ ev'.outcome = "throws"
        /\ UNCHANGED <<tasks, projects, pendingChanges, localStorage, idbTxns>> ]_vars

\* C16 witness: addTask has just thrown, nobody being signed in, over a cache
\* that holds a task.
C16_Witness ==
  /\ ev.kind = "call"
  /\ ev.op = "addTask"
  /\ ev.outcome = "throws"
  /\ user = NoUser
  /\ tasks # <<>>

\* C17 (as claimed): no add, update or delete of a task or a project called with
\* no authenticated user is applied to the Entity Cache, the Mutation Log or the
\* Local Store: each throws.
C17_MutationsNeedUser ==
  [][ (ev'.kind = "call" /\ user = NoUser) =>
        /\ ev'.outcome = "throws"
        /\ UNCHANGED <<tasks, projects, pendingChanges, localStorage, idbTxns>> ]_vars

\* the step leaves the Entity Cache and the Mutation Log, and what is stored of
\* them, as they were
NothingWritten == UNCHANGED <<tasks, projects, pendingChanges, localStorage, idbTxns>>

\* C18: updateTask/updateProject on an id that is not in the cache returns
\* null, deleteTask/deleteProject on such an id returns false; nothing is
\* thrown, and the Entity Cache and the Mutation Log are unchanged.
C18_AbsentIdIsRefused ==
  [][ /\ (Called("updateTask") /\ ev'.id \notin IdsOf(tasks)) =>
           (ev'.outcome = "null" /\ NothingWritten)
      /\ (Called("updateProject") /\ ev'.id \notin IdsOf(projects)) =>
           (ev'.outcome = "null" /\ NothingWritten)
      /\ (Called("deleteTask") /\ ev'.id \notin IdsOf(tasks)) =>
           (ev'.outcome = "false" /\ NothingWritten)
      /\ (Called("deleteProject") /\ ev'.id \notin IdsOf(projects)) =>
           (ev'.outcome = "false" /\ NothingWritten) ]_vars

\* C18 witness: updateTask has just returned null for an id the cache, which is
\* not empty, does not hold.
C18_Witness ==
  /\ ev.kind = "call"
  /\ ev.op = "updateTask"
  /\ ev.outcome = "null"
  /\ ev.id \notin IdsOf(tasks)
  /\ tasks # <<>>

\* after is before with the entity at position i replaced by e, which keeps
\* the id and the owner and carries a later updatedAt
ReplacedInPlace(before, after, i, e) ==
  /\ Len(after) = Len(before)
  /\ after[i] = e
  /\ e.id = before[i].id
  /\ e.userId = before[i].userId
  /\ e.val > before[i].val
  /\ \A j \in DOMAIN before : j # i => after[j] = before[j]

RemovedAt(before, after, i) ==
  /\ Len(after) = Len(before) - 1
  /\ \A j \in DOMAIN after : after[j] = IF j < i THEN before[j] ELSE before[j + 1]

----------------------------------------------------------------------------
\* Properties of the Local Store's failures (QuotaSpec, LoadSpec)

\* C21 (as claimed): a localStorage write that fails during an import or during
\* the handling of a sync response does not reach the caller: the import
\* returns, with every imported entity cached and every imported mutation
\* logged, and the exchange does not end in 'error'.
C21_WriteFailureIsCaught ==
  [][ /\ (ev'.kind = "call" /\ ev'.op = "importData" /\ localStorage' = localStorage) =>
           /\ ev'.outcome = "returns"
           /\ Range(ev'.entity[1].tasks) \subseteq Range(tasks')
           /\ Range(ev'.entity[1].projects) \subseteq Range(projects')
           /\ Range(ev'.entity[1].pendingChanges) \subseteq Range(pendingChanges')
      /\ ev'.kind = "threw" => syncStatus' # "error" ]_vars

\* loadFromStorage has just run (the constructor's callback)
CachesLoaded == initPc = "opening" /\ initPc' # "opening"

\* loadPendingChanges has just read the log's localStorage item
FallbackRead ==
  \/ initPc = "opening" /\ initPc' = "done"
  \/ initPc = "reading" /\ initPc' # "reading" /\ Len(initCtx.changes) = 0

\* C22 (as claimed): when a load finds an item of the current user that does
\* not parse, it removes the item and its collection (tasks, projects, the
\* log) is the empty default afterwards.
C22_CorruptKeyIsCleared ==
  [][ LET keys == getStorageKeys(user)
      IN /\ (CachesLoaded /\ ~Parses(localStorage[keys.TASKS_KEY])) =>
              (tasks' = <<>> /\ ~localStorage'[keys.TASKS_KEY].present)
         /\ (CachesLoaded /\ ~Parses(localStorage[keys.PROJECTS_KEY])) =>
              (projects' = <<>> /\ ~localStorage'[keys.PROJECTS_KEY].present)
         /\ (FallbackRead /\ ~Parses(localStorage[keys.PENDING_CHANGES_KEY])) =>
              (pendingChanges' = <<>> /\ ~localStorage'[keys.PENDING_CHANGES_KEY].present)
    ]_vars

\* The log loadPendingChanges would publish if the application were restarted
\* now in this browser with the same user: the user's IndexedDB entries if
\* IndexedDB is open and holds any, the localStorage item otherwise
ReplayedLog ==
  IF db /\ Len(idb[Namespace(user)]) > 0 THEN idb[Namespace(user)]
  ELSE FallbackLog(localStorage, user)

\* no storage write is outstanding: every IndexedDB transaction has completed
\* and the initialisation, with its migration, is over
WritesCompleted == idbTxns = <<>> /\ initPc = "done"

\* C23 (as claimed): once all outstanding storage writes have completed, the
\* log a restart would reload is the in-memory Mutation Log, same entries in
\* the same order.
C23_ReplayIsTheLog == WritesCompleted => ReplayedLog = pendingChanges

----------------------------------------------------------------------------
\* Properties of the import (ImportSpec)

\* C24: importData merges by id, the incoming copy winning: every imported
\* entity is the cache's one entry for its id, every entity whose id is not in
\* the backup is unchanged, no entity is removed, and the Mutation Log is the
\* log before followed by the backup's pending mutations.
C24_ImportMerges ==
  [][ Called("importData") =>
        LET data == ev'.entity[1]
        IN /\ ServerWins(tasks, data.tasks, tasks')
           /\ ServerWins(projects, data.projects, projects')
           /\ IdsOf(tasks) \subseteq IdsOf(tasks')
           /\ IdsOf(projects) \subseteq IdsOf(projects')
           /\ pendingChanges' = pendingChanges \o data.pendingChanges ]_vars

\* C24 witness: a backup of two tasks and one mutation has been imported into a
\* cache that keeps a task of its own and into a log that keeps its mutation.
C24_Witness ==
  /\ ev.kind = "call"
  /\ ev.op = "importData"
  /\ Len(ev.entity[1].tasks) = 2
  /\ \E e \in Range(tasks) : e.id \notin IdsOf(ev.entity[1].tasks)
  /\ Len(pendingChanges) = 2
  /\ pendingChanges[1].action = "delete"
  /\ pendingChanges[2] \in Range(ev.entity[1].pendingChanges)

----------------------------------------------------------------------------
\* Properties of the statistics (StatsSpec)

\* the positions of the tasks of ts that are not completed and due in [from, to)
ActiveDueIn(ts, from, to) ==
  {i \in DOMAIN ts : ~ts[i].completed /\ ts[i].dueDate # NoDue
                       /\ from <= ts[i].dueDate /\ ts[i].dueDate < to}

\* C25: getStatistics returns total = number of tasks, completed = number of
\* completed tasks, active = number of the others, so total = completed +
\* active; overdue = number of active tasks due before the start of today;
\* dueToday = number of active tasks due from the start of today to before the
\* start of tomorrow; the last two count disjoint sets of active tasks.
C25_Statistics ==
  ev.kind = "stats" =>
    LET start == CHOOSE t \in 0..ev.now : t % DayLength = 0 /\ ev.now - t < DayLength
        late == ActiveDueIn(tasks, 0, start)
        today == ActiveDueIn(tasks, start, start + DayLength)
    IN /\ ev.stats.total = Len(tasks)
       /\ ev.stats.completed = Cardinality({i \in DOMAIN tasks : tasks[i].completed})
       /\ ev.stats.active = Cardinality({i \in DOMAIN tasks : ~tasks[i].completed})
       /\ ev.stats.total = ev.stats.completed + ev.stats.active
       /\ ev.stats.overdue = Cardinality(late)
       /\ ev.stats.dueToday = Cardinality(today)
       /\ late \cap today = {}
       /\ ev.stats.overdue + ev.stats.dueToday <= ev.stats.active

\* C25 witness: late today, for a task due yesterday, a task due earlier today
\* and a completed task due yesterday, the statistics are 3, 1, 2, 1, 1.
C25_Witness ==
  /\ ev.kind = "stats"
  /\ ev.now = 3
  /\ tasks = <<StatTask(1, FALSE, 1), StatTask(2, FALSE, 2), StatTask(3, TRUE, 1)>>
  /\ ev.stats = [total |-> 3, completed |-> 1, active |-> 2, overdue |-> 1, dueToday |-> 1]

----------------------------------------------------------------------------
\* Properties of the exchanges with the remote store (RemoteSpec, RemoteLiveSpec)

\* C26 (as claimed): after a successful exchange whose response confirms a
\* delete mutation it sent, the deleted entity is neither in the Entity Cache
\* nor in the collection stored for the user.
C26_DeletedStaysDeleted ==
  ev.kind = "success" =>
    \A i \in DOMAIN ev.sent :
      (ev.sent[i].type = "task" /\ ev.sent[i].action = "delete"
         /\ ev.sent[i].data.id \in ev.confirmed) =>
        /\ ev.sent[i].data.id \notin IdsOf(tasks)
        /\ ev.sent[i].data.id \notin
             IdsOf(ParseOrEmpty(localStorage[getStorageKeys(user).TASKS_KEY]))

\* C27 (as claimed): once local mutations have stopped and another sync is
\* still attempted and succeeds, the Mutation Log eventually becomes empty.
C27_LogDrains == LocalStopped ~> pendingChanges = <<>>

\* Every task another client of the user stored in the remote store is in the
\* Entity Cache with that content
Converged ==
  \A i \in DOMAIN remote.tasks :
    (remote.tasks[i].userId = user /\ remote.tasks[i].val < 0) =>
      \E j \in DOMAIN tasks : tasks[j] = RowEntity(remote.tasks[i])

\* C28 (as claimed): once local mutations have stopped and another sync is
\* still attempted and succeeds, every change another client stored for the
\* user is eventually in the Entity Cache.
C28_Converges == LocalStopped ~> Converged

----------------------------------------------------------------------------
\* Properties of the ids in the Entity Cache (IdSpec)

\* the call before this step was an addTask that returned its entity
AddedBefore == ev.kind = "call" /\ ev.op = "addTask" /\ ev.outcome = "entity"

----------------------------------------------------------------------------
\* Properties of a deferred request's exchange (SyncSpec)

\* C30: when the end of an exchange starts a deferred request, the request sent
\* carries the Mutation Log and the last-sync timestamp as the ending
\* exchange's handlers left them (after the merge, the confirmation and the
\* timestamp update, with the mutations appended meanwhile).
C30_QueuedSendsFresh ==
  [][("started" \in DOMAIN ev' /\ ev'.started # <<>>) =>
       \E x \in inflight' :
         /\ x.req = Head(ev'.started)
         /\ x.snap.log = pendingChanges'
         /\ x.tasks = OfType(pendingChanges', "task")
         /\ x.projects = OfType(pendingChanges', "project")
         /\ x.lastSync = localStorage'[getStorageKeys(user').LAST_SYNC_KEY]]_vars

\* C30 witness: a deferred request was started by a successful exchange that
\* confirmed mutations and recorded its timestamp; the request carries the
\* shortened log, which holds a mutation appended during that exchange, and
\* the new timestamp.
C30_Witness ==
  /\ ev.kind = "success"
  /\ ev.started # <<>>
  /\ ev.confirmed # {}
  /\ pendingChanges # ev.before
  /\ \E c \in Range(pendingChanges) : c \notin Range(ev.sent)
  /\ \E x \in inflight :
       /\ x.req = Head(ev.started)
       /\ x.snap.log = pendingChanges
       /\ x.lastSync = Stringify(ev.newLastSync)

----------------------------------------------------------------------------
\* Properties of the confirmation inside an exchange (SyncSpec)

\* after is before without the mutations whose id is in ids, the others in
\* their order
KeptInOrder(before, ids, after) ==
  LET keep == {i \in DOMAIN before : before[i].data.id \notin ids}
  IN /\ Len(after) = Cardinality(keep)
     /\ \A i \in keep : after[Cardinality({j \in keep : j <= i})] = before[i]

\* C31: the confirmation of a successful exchange leaves exactly the mutations
\* whose id is not among the confirmed ids, in their order; and every exchange
\* that starts carries every mutation then in the log, so a mutation sent but
\* not confirmed is sent again.
C31_ClearsConfirmedOnly ==
  [][/\ ev'.kind = "success" => KeptInOrder(ev'.before, ev'.confirmed, pendingChanges')
     /\ \A x \in inflight' \ inflight :
          Range(pendingChanges') \subseteq Range(x.tasks \o x.projects)]_vars

\* C31 witness: a successful exchange confirmed one of the mutations it sent
\* and not another, which is still in the log and is carried by the deferred
\* request this exchange started.
C31_Witness ==
  /\ ev.kind = "success"
  /\ ev.confirmed # {}
  /\ ev.started # <<>>
  /\ \E c \in Range(ev.sent) :
       /\ c.data.id \notin ev.confirmed
       /\ c \in Range(pendingChanges)
       /\ \E x \in inflight : x.req = Head(ev.started) /\ c \in Range(x.tasks \o x.projects)

\* part holds the mutations of log that have this type, at the same relative
\* positions
SplitInOrder(log, type, part) ==
  LET keep == {i \in DOMAIN log : log[i].type = type}
  IN /\ Len(part) = Cardinality(keep)
     /\ \A i \in keep : part[Cardinality({j \in keep : j <= i})] = log[i]

\* C32: the request of every exchange that starts carries the whole Mutation
\* Log, the task mutations and the project mutations each in log order, and a
\* syncWithServer call leaves the log as it was.
C32_RequestCarriesLog ==
  [][/\ \A x \in inflight' \ inflight :
          /\ SplitInOrder(pendingChanges', "task", x.tasks)
          /\ SplitInOrder(pendingChanges', "project", x.projects)
          /\ Len(x.tasks) + Len(x.projects) = Len(pendingChanges')
     /\ reqCount' # reqCount => pendingChanges' = pendingChanges]_vars

\* C32 witness: an exchange is in flight whose request holds the create of an
\* entity followed by the delete of the same entity, while the log still holds
\* both.
C32_Witness ==
  \E x \in inflight :
    /\ x.snap.log = pendingChanges
    /\ \E i, j \in DOMAIN x.tasks :
         /\ i < j
         /\ x.tasks[i].action = "create"
         /\ x.tasks[j].action = "delete"
         /\ x.tasks[i].data.id = x.tasks[j].data.id

----------------------------------------------------------------------------
\* Properties of the log across backups (LogSpec)

\* C33 (as claimed): no local change has two entries in the Mutation Log: the
\* entries of the log are pairwise different mutations.
C33_OneEntryPerChange ==
  \A i, j \in DOMAIN pendingChanges : i # j => pendingChanges[i] # pendingChanges[j]

----------------------------------------------------------------------------
\* Properties of an exchange whose caller goes away (CancelSpec)

\* C34 (as claimed): an exchange leaves the in-flight set only through its
\* success or its failure, and a status of 'syncing' is eventually followed by
\* 'success' or 'error'.
C34_RunsToCompletion ==
  /\ [][\A x \in inflight \ inflight' : ev'.kind \in {"success", "fail"}]_vars
  /\ (syncStatus = "syncing") ~> (syncStatus \in {"success", "error"})

----------------------------------------------------------------------------
\* Properties of the migration at initialization (LoadSpec)

\* C35 (as claimed): once initialization has finished with IndexedDB open, every
\* pending mutation the fallback store holds for the user is in the durable
\* store for that user.
C35_FallbackIsMigrated ==
  (initPc = "done" /\ db) =>
    Range(FallbackLog(localStorage, user)) \subseteq Range(idb[Namespace(user)])

----------------------------------------------------------------------------
\* Properties of the log's persistence when IndexedDB writes fail (FailSpec)

\* C36 (as claimed): once the writes an append or a confirmation started have
\* ended, completed or failed, the current log is what IndexedDB or the
\* localStorage fallback holds for the user.
C36_PersistedSomewhere ==
  WritesCompleted =>
    \/ pendingChanges = idb[Namespace(user)]
    \/ pendingChanges = FallbackLog(localStorage, user)

\* C37: whenever the queue of deferred sync requests is non-empty, the
\* in-progress flag is set and an exchange is in flight, also when the
\* observable syncWithServer returned is subscribed later than the call or is
\* never subscribed.
C37_QueuedNeverStranded ==
  syncQueue # <<>> => (isSyncInProgress /\ inflight # {})

\* the create mutations of the log, by entity id
CreatedIn(log) == {log[i].data.id : i \in {j \in DOMAIN log : log[j].action = "create"}}

\* C38: a local mutation performed before the asynchronous initialisation has
\* finished loses nothing: once initialisation is complete, the Entity Cache
\* and the Local Store hold the previously persisted task and every task
\* added, and the Mutation Log holds the previously persisted mutation and the
\* create mutation of every task added.
C38_InitLosesNothing ==
  WritesCompleted =>
    /\ {PriorTask.id} \cup (1..clock) \subseteq IdsOf(tasks)
    /\ {PriorTask.id} \cup (1..clock) \subseteq
          IdsOf(ParseOrEmpty(localStorage[getStorageKeys("A").TASKS_KEY]))
    /\ PriorChange \in Range(pendingChanges)
    /\ 1..clock \subseteq CreatedIn(pendingChanges)

\* C39: a sync request made under a user's credential carries only mutations
\* recorded while that user was the current user; no mutation of A's is sent
\* under B's credential after A signs out and B signs in.
C39_SendsOwnMutationsOnly ==
  \A x \in inflight : \A c \in Range(x.tasks \o x.projects) : c.data.userId = x.token

\* rows of a table owned by users other than u, in table order
RowsOfOthers(rows, u) == SelectSeq(rows, LAMBDA r : r.userId # u)

\* C40: the sync endpoint touches no row of a user other than the
\* authenticated one: serverChanges holds only the caller's rows, a created
\* row is stored under the caller's id whatever userId the payload carries,
\* the rows of other users are after the request what they were before it, a
\* delete is confirmed also when no row has the id, and a request without a
\* valid credential gets 401 and changes nothing.
C40_TouchesOwnRowsOnly ==
  [][ ev'.kind = "post" =>
        IF ev'.token = NoUser
        THEN ev'.status = 401 /\ remote' = remote
        ELSE /\ ev'.status = 200
             /\ \A e \in Range(ev'.serverChanges.tasks \o ev'.serverChanges.projects) :
                  e.userId = ev'.token
             /\ \A r \in (Range(remote'.tasks) \ Range(remote.tasks))
                           \cup (Range(remote'.projects) \ Range(remote.projects)) :
                  r.userId = ev'.token
             /\ RowsOfOthers(remote'.tasks, ev'.token) = RowsOfOthers(remote.tasks, ev'.token)
             /\ RowsOfOthers(remote'.projects, ev'.token)
                  = RowsOfOthers(remote.projects, ev'.token)
             /\ \A c \in Range(ev'.body.tasks \o ev'.body.projects) :
                  c.action = "delete" => c.data.id \in ev'.confirmed ]_vars
====
